---------------------------- MODULE Spec2Model ----------------------------
(***************************************************************************)
(* Model of the openpoker trainer (src/api/app/routers/trainer.py): the    *)
(* strategy-tree interpreter and the start / submitAction / complete       *)
(* session engine with its persisted rows and per-player aggregates.       *)
(*                                                                         *)
(* Conventions.                                                            *)
(*  - A Python string is a sequence of one-character strings, so that      *)
(*    indexing (combo[0]), splitting and the card regular expression are   *)
(*    computed as the code computes them.                                  *)
(*  - A Python float is an exact rational [n |-> _, d |-> _] in lowest     *)
(*    terms with d > 0.                                                    *)
(*  - A Python dict is a sequence of <<key, value>> pairs in insertion     *)
(*    order with distinct keys.                                            *)
(*  - None is NoNode for a tree node, <<>> for an absent string.           *)
(***************************************************************************)
EXTENDS Integers, Sequences, FiniteSets, TLC

\* ------------------------------------------------------------------ bounds
MaxSessions == 1        \* session rows that start may create
MaxCount == 2           \* cap on an aggregate's sessions_count (complete's guard)

\* ------------------------------------------------------- float arithmetic
Abs(x) == IF x < 0 THEN -x ELSE x

RECURSIVE Gcd(_, _)
Gcd(a, b) == IF b = 0 THEN a ELSE Gcd(b, a % b)

Rat(n, d) ==
    LET g == Gcd(Abs(n), d)
    IN  [n |-> n \div g, d |-> d \div g]

RAdd(a, b) == Rat(a.n * b.d + b.n * a.d, a.d * b.d)
RMulInt(a, k) == Rat(a.n * k, a.d)
RDivInt(a, k) == Rat(a.n, a.d * k)
RLeq(a, b) == a.n * b.d <= b.n * a.d
RLess(a, b) == a.n * b.d < b.n * a.d
RMax(a, b) == IF RLeq(a, b) THEN b ELSE a
RMin(a, b) == IF RLeq(a, b) THEN a ELSE b
Zero == Rat(0, 1)
One == Rat(1, 1)
\* a frequency written in ten-thousandths
F(x) == Rat(x, 10000)

RECURSIVE RSum(_)
RSum(s) == IF s = <<>> THEN Zero ELSE RAdd(Head(s), RSum(Tail(s)))

\* round(x, 4) for x >= 0: nearest ten-thousandth, ties to even
Round4(q) ==
    LET s == q.n * 10000
        f == s \div q.d
        r2 == 2 * (s % q.d)
        k == IF r2 > q.d \/ (r2 = q.d /\ f % 2 = 1) THEN f + 1 ELSE f
    IN  Rat(k, 10000)

\* ------------------------------------------------------------ strings
SUITS == <<"c", "d", "h", "s">>
RANKS == <<"A", "K", "Q", "J", "T", "9", "8", "7", "6", "5", "4", "3", "2">>
SeqRange(s) == {s[i] : i \in DOMAIN s}

CHECK == <<"C", "H", "E", "C", "K">>
BET == <<"B", "E", "T">>
CALL == <<"C", "A", "L", "L">>
FOLD == <<"F", "O", "L", "D">>
NoStr == <<>>

\* _CARD_PAT = ^[2-9TJQKA][cdhs]$
CARD_PAT(step) ==
    /\ Len(step) = 2
    /\ step[1] \in {"2", "3", "4", "5", "6", "7", "8", "9", "T", "J", "Q", "K", "A"}
    /\ step[2] \in {"c", "d", "h", "s"}

\* s.split(sep...) with the empty pieces dropped
RECURSIVE SplitAcc(_, _, _, _)
SplitAcc(s, seps, cur, acc) ==
    IF s = <<>> THEN (IF cur = <<>> THEN acc ELSE Append(acc, cur))
    ELSE IF Head(s) \in seps
         THEN SplitAcc(Tail(s), seps, <<>>, IF cur = <<>> THEN acc ELSE Append(acc, cur))
         ELSE SplitAcc(Tail(s), seps, Append(cur, Head(s)), acc)

RECURSIVE LStrip(_)
LStrip(s) == IF s # <<>> /\ Head(s) = " " THEN LStrip(Tail(s)) ELSE s
RECURSIVE RStrip(_)
RStrip(s) == IF s # <<>> /\ s[Len(s)] = " " THEN RStrip(SubSeq(s, 1, Len(s) - 1)) ELSE s
Strip(s) == RStrip(LStrip(s))

\* a mutation: the frequency suffix is kept
WholeToken(s) == s

\* s.split(":")[0]
RECURSIVE BeforeColon(_)
BeforeColon(s) ==
    IF s = <<>> \/ Head(s) = ":" THEN <<>> ELSE <<Head(s)>> \o BeforeColon(Tail(s))

RECURSIVE Concat(_)
Concat(ss) == IF ss = <<>> THEN <<>> ELSE Head(ss) \o Concat(Tail(ss))

\* ------------------------------------------------------------ dicts
HasKey(d, k) == \E i \in DOMAIN d : d[i][1] = k
DictGet(d, k) == d[CHOOSE i \in DOMAIN d : d[i][1] = k][2]
Keys(d) == [i \in DOMAIN d |-> d[i][1]]
Values(d) == [i \in DOMAIN d |-> d[i][2]]


\* ------------------------------------------------------------ tree document
NoNode == 0             \* None: no node at the path
Root == 1               \* a tree document is its root node
NoPlayer == -1          \* node.get("player") is None

\* a chance node's cards are stored under "deal_cards" or under "dealcards"
ActionNode(player, childrens, strategy) ==
    [node_type |-> "action_node", player |-> player, childrens |-> childrens,
     deal_cards |-> <<>>, dealcards |-> <<>>, strategy |-> strategy]
ChanceNode(deal_cards) ==
    [node_type |-> "chance_node", player |-> NoPlayer, childrens |-> <<>>,
     deal_cards |-> deal_cards, dealcards |-> <<>>, strategy |-> <<>>]
DealcardsNode(dealcards) ==
    [node_type |-> "chance_node", player |-> NoPlayer, childrens |-> <<>>,
     deal_cards |-> <<>>, dealcards |-> dealcards, strategy |-> <<>>]
OtherNode(node_type) ==
    [node_type |-> node_type, player |-> NoPlayer, childrens |-> <<>>,
     deal_cards |-> <<>>, dealcards |-> <<>>, strategy |-> <<>>]

Ah == <<"A", "h">>
Td == <<"T", "d">>
c3 == <<"3", "c">>
AhKh == <<"A", "h", "K", "h">>
AhQh == <<"A", "h", "Q", "h">>
AsQs == <<"A", "s", "Q", "s">>

\* A result file dumped for the flop only: the root (OOP) stores vectors one
\* longer than its children (a FOLD entry), the turn card leads to nodes
\* without children.
TreeFlop ==
    <<ActionNode(0, <<<<CHECK, 2>>>>, << <<AhQh, <<F(0), F(10000)>>>> >>),
      ActionNode(1, <<<<CHECK, 3>>>>, << <<AhKh, <<F(8000)>>>> >>),
      ChanceNode(<<<<Ah, 4>>, <<Td, 5>>>>),
      ActionNode(0, <<>>, <<>>),
      ActionNode(0, <<>>, <<>>)>>

\* A result file with all three streets: flop, turn and river of a check/bet tree.
\* Node 1 (OOP) stores vectors one longer than its children (a FOLD entry),
\* nodes 6 and 9 are chance nodes of a street that was not dumped, node 16 is
\* a showdown leaf.
Tree1 ==
    <<ActionNode(0, <<<<CHECK, 2>>, <<BET, 3>>>>,
                 << <<AhQh, <<F(0), F(8000), F(2000)>>>>,
                    <<AsQs, <<F(0), F(5000), F(5000)>>>> >>),
      ActionNode(1, <<<<CHECK, 4>>, <<BET, 5>>>>,
                 << <<AhKh, <<F(8000), F(2000)>>>> >>),
      ActionNode(1, <<<<CALL, 6>>>>,
                 << <<AhKh, <<F(0), F(10000)>>>> >>),
      ChanceNode(<<<<Ah, 7>>, <<Td, 8>>>>),
      ActionNode(0, <<<<CALL, 9>>>>,
                 << <<AhQh, <<F(5000), F(5000)>>>>,
                    <<AsQs, <<F(2000), F(8000)>>>> >>),
      ChanceNode(<<>>),
      ActionNode(0, <<<<CHECK, 10>>>>, <<>>),
      ActionNode(0, <<<<CHECK, 11>>>>,
                 << <<AhQh, <<F(10000)>>>>, <<AsQs, <<F(10000)>>>> >>),
      ChanceNode(<<>>),
      ActionNode(1, <<>>, <<>>),
      ActionNode(1, <<<<CHECK, 12>>, <<BET, 13>>>>,
                 << <<AhKh, <<F(4000), F(6000)>>>> >>),
      ChanceNode(<<<<c3, 14>>>>),
      ActionNode(0, <<>>, <<>>),
      ActionNode(0, <<<<CHECK, 15>>>>,
                 << <<AhQh, <<F(10000)>>>>, <<AsQs, <<F(10000)>>>> >>),
      ActionNode(1, <<<<CHECK, 16>>>>,
                 << <<AhKh, <<F(10000)>>>> >>),
      OtherNode("showdown_node")>>

\* ------------------------------------------------------------ interpreter
\* node.get("childrens") or node.get("deal_cards") or {}
ChildrenOf(node) == IF node.childrens # <<>> THEN node.childrens ELSE node.deal_cards

RECURSIVE NavigateFrom(_, _, _)
NavigateFrom(tree, node, node_path) ==
    IF node_path = <<>> THEN node
    ELSE LET children == ChildrenOf(tree[node])
         IN  IF ~HasKey(children, Head(node_path)) THEN NoNode
             ELSE IF DictGet(children, Head(node_path)) = NoNode THEN NoNode
             ELSE NavigateFrom(tree, DictGet(children, Head(node_path)), Tail(node_path))

navigate_tree(tree, node_path) == NavigateFrom(tree, Root, node_path)

\* hands.py: a chance node is left through "dealcards", any other through "childrens"
RECURSIVE GtoNavigateFrom(_, _, _)
GtoNavigateFrom(tree, node, node_path) ==
    IF node_path = <<>> THEN node
    ELSE LET children == IF tree[node].node_type = "chance_node"
                         THEN tree[node].dealcards ELSE tree[node].childrens
         IN  IF ~HasKey(children, Head(node_path)) THEN NoNode
             ELSE IF DictGet(children, Head(node_path)) = NoNode THEN NoNode
             ELSE GtoNavigateFrom(tree, DictGet(children, Head(node_path)),
                                  Tail(node_path))

gto_navigate_tree(tree, node_path) == GtoNavigateFrom(tree, Root, node_path)

\* entries carry the code's 0-based index
PlainEntries(child_keys, offset) ==
    [i \in 1..Len(child_keys) |-> [name |-> child_keys[i], index |-> i - 1 + offset]]

\* a mutation: no FOLD entry is synthesized
get_action_entries_no_fold(node) == PlainEntries(Keys(node.childrens), 0)

get_action_entries(node) ==
    LET child_keys == Keys(node.childrens)
        strategy == node.strategy
    IN  IF strategy = <<>> THEN PlainEntries(child_keys, 0)
        ELSE LET sample == strategy[1][2]
                 strat_len == Len(sample)
             IN  IF strat_len = Len(child_keys) + 1
                 THEN <<[name |-> FOLD, index |-> 0]>> \o PlainEntries(child_keys, 1)
                 ELSE PlainEntries(child_keys, 0)

\* hands.py carries its own copy of the entry derivation
gto_get_action_entries(node) ==
    LET child_keys == Keys(node.childrens)
        strategy == node.strategy
    IN  IF strategy = <<>> THEN PlainEntries(child_keys, 0)
        ELSE LET sample == strategy[1][2]
                 strat_len == Len(sample)
             IN  IF strat_len = Len(child_keys) + 1
                 THEN <<[name |-> FOLD, index |-> 0]>> \o PlainEntries(child_keys, 1)
                 ELSE PlainEntries(child_keys, 0)

\* itertools.permutations(SUITS), in its order
PermsLex ==
    LET digit(k, p) == ((k \div p) % 4) + 1
        all == [k \in 1..256 |->
                  <<digit(k - 1, 64), digit(k - 1, 16), digit(k - 1, 4), digit(k - 1, 1)>>]
        isPerm(t) == Cardinality({t[1], t[2], t[3], t[4]}) = 4
    IN  SelectSeq(all, isPerm)

Reverse(s) == [i \in 1..Len(s) |-> s[Len(s) + 1 - i]]

\* set(permutations(SUITS)) is iterated in the order the process's string
\* hashing gives; a run has one of these orders.
PermOrders == <<PermsLex, Reverse(PermsLex)>>

SuitIndex(s) == CHOOSE i \in 1..4 : SUITS[i] = s

RECURSIVE FirstIso(_, _, _)
FirstIso(strategy, combo, perms) ==
    IF perms = <<>> THEN NoStr
    ELSE LET perm == Head(perms)
             candidate == <<combo[1], SUITS[perm[SuitIndex(combo[2])]],
                            combo[3], SUITS[perm[SuitIndex(combo[4])]]>>
         IN  IF HasKey(strategy, candidate) THEN candidate
             ELSE FirstIso(strategy, combo, Tail(perms))

find_iso_combo(strategy, combo, order) == FirstIso(strategy, combo, PermOrders[order])

EntryNamed(entries, action_name) ==
    LET hits == {i \in DOMAIN entries : entries[i].name = action_name}
    IN  IF hits = {} THEN 0 ELSE CHOOSE i \in hits : \A j \in hits : i <= j

\* a lookup that answers with the table's first vector when the combo is unknown
gto_freq_first_vector(node, hero_combo, action_name, order) ==
    LET entries == get_action_entries(node)
        e == EntryNamed(entries, action_name)
    IN  IF node.strategy = <<>> \/ e = 0 THEN Zero
        ELSE LET freqs == node.strategy[1][2]
                 idx == entries[e].index
             IN  IF idx < Len(freqs) THEN freqs[idx + 1] ELSE Zero

\* the float the code returns; a frequency lookup never raises
gto_freq_for_combo(node, hero_combo, action_name, order) ==
    LET entries == get_action_entries(node)
        strategy == node.strategy
        e == EntryNamed(entries, action_name)
    IN  IF strategy = <<>>
        THEN Rat(1, IF Len(entries) > 1 THEN Len(entries) ELSE 1)
        ELSE IF e = 0 THEN Zero
        ELSE LET idx == entries[e].index
                 freqs_key == IF HasKey(strategy, hero_combo) THEN hero_combo
                              ELSE find_iso_combo(strategy, hero_combo, order)
             IN  IF freqs_key = NoStr
                 THEN LET all_vals == SelectSeq(Values(strategy), LAMBDA v : Len(v) > idx)
                          picked == [i \in 1..Len(all_vals) |-> all_vals[i][idx + 1]]
                      IN  IF Len(all_vals) = 0 THEN Zero
                          ELSE RDivInt(RSum(picked), Len(all_vals))
                 ELSE LET freqs == DictGet(strategy, freqs_key)
                      IN  IF idx < Len(freqs) THEN freqs[idx + 1] ELSE Zero

\* hands.py: both rank orderings, each against every suit permutation
gto_find_iso_combo(strategy, combo, order) ==
    LET first == FirstIso(strategy, combo, PermOrders[order])
        swapped == <<combo[3], combo[4], combo[1], combo[2]>>
    IN  IF first # NoStr THEN first
        ELSE FirstIso(strategy, swapped, PermOrders[order])

\* hands.py's _gto_freq_for_combo
hands_gto_freq_for_combo(node, hero_combo, action_name, order) ==
    LET entries == gto_get_action_entries(node)
        strategy == node.strategy
        e == EntryNamed(entries, action_name)
    IN  IF strategy = <<>>
        THEN Rat(1, IF Len(entries) > 1 THEN Len(entries) ELSE 1)
        ELSE IF e = 0 THEN Zero
        ELSE LET idx == entries[e].index
                 iso == IF HasKey(strategy, hero_combo) THEN hero_combo
                        ELSE gto_find_iso_combo(strategy, hero_combo, order)
             IN  IF iso = NoStr
                 THEN LET all_vals == SelectSeq(Values(strategy), LAMBDA v : Len(v) > idx)
                          picked == [i \in 1..Len(all_vals) |-> all_vals[i][idx + 1]]
                      IN  IF Len(all_vals) = 0 THEN Zero
                          ELSE RDivInt(RSum(picked), Len(all_vals))
                 ELSE LET freqs == DictGet(strategy, iso)
                      IN  IF idx < Len(freqs) THEN freqs[idx + 1] ELSE Zero

gto_available_actions(node, hero_combo, order) ==
    LET entries == gto_get_action_entries(node)
    IN  [i \in 1..Len(entries) |->
           [name |-> entries[i].name,
            gto_freq |-> Round4(hands_gto_freq_for_combo(node, hero_combo,
                                                         entries[i].name, order))]]

\* a mutation: every action node is taken for hero's
is_villain_node_never(node, hero_position, hero_combo) == FALSE

is_villain_node(node, hero_position, hero_combo) ==
    IF node.player # NoPlayer
    THEN (node.player = 0) # (hero_position = "oop")
    ELSE IF node.strategy = <<>> THEN FALSE
         ELSE ~HasKey(node.strategy, hero_combo)

\* a mutation: the street follows the length of the path
compute_street_by_length(node_path) ==
    IF Len(node_path) = 0 THEN "flop" ELSE IF Len(node_path) = 1 THEN "turn" ELSE "river"

compute_street(node_path) ==
    LET board_cards_in_path == Len(SelectSeq(node_path, CARD_PAT))
    IN  IF board_cards_in_path = 0 THEN "flop"
        ELSE IF board_cards_in_path = 1 THEN "turn"
        ELSE "river"

available_actions(node, hero_combo, order) ==
    LET entries == get_action_entries(node)
    IN  [i \in 1..Len(entries) |->
            [name |-> entries[i].name,
             gto_freq |-> Round4(gto_freq_for_combo(node, hero_combo, entries[i].name, order))]]


\* ------------------------------------------------------------ range expansion
SuitPairs == [k \in 1..16 |-> <<SUITS[((k - 1) \div 4) + 1], SUITS[((k - 1) % 4) + 1]>>]

\* a mutation: combos touching the board are kept
ExpandHandUnfiltered(hand, board_cards) ==
    LET want(p) ==
            IF Len(hand) = 2
            THEN IF hand[1] = hand[2] THEN SuitIndex(p[1]) < SuitIndex(p[2]) ELSE p[1] # p[2]
            ELSE IF Len(hand) = 3
                 THEN IF hand[3] = "s" THEN p[1] = p[2]
                      ELSE IF hand[3] = "o" THEN p[1] # p[2] ELSE FALSE
                 ELSE FALSE
        kept == SelectSeq(SuitPairs, LAMBDA p : want(p))
    IN  [i \in 1..Len(kept) |-> <<hand[1], kept[i][1], hand[2], kept[i][2]>>]

ExpandHand(hand, board_cards) ==
    LET want(p) ==
            IF Len(hand) = 2
            THEN IF hand[1] = hand[2] THEN SuitIndex(p[1]) < SuitIndex(p[2]) ELSE p[1] # p[2]
            ELSE IF Len(hand) = 3
                 THEN IF hand[3] = "s" THEN p[1] = p[2]
                      ELSE IF hand[3] = "o" THEN p[1] # p[2] ELSE FALSE
                 ELSE FALSE
        free(p) == <<hand[1], p[1]>> \notin board_cards /\ <<hand[2], p[2]>> \notin board_cards
        kept == SelectSeq(SuitPairs, LAMBDA p : want(p) /\ free(p))
    IN  [i \in 1..Len(kept) |-> <<hand[1], kept[i][1], hand[2], kept[i][2]>>]

parse_range_to_combos(range_str, board_cards) ==
    LET pieces == SplitAcc(range_str, {","}, <<>>, <<>>)
        stripped == [i \in 1..Len(pieces) |-> Strip(pieces[i])]
        tokens == SelectSeq(stripped, LAMBDA t : t # <<>>)
        hands == [i \in 1..Len(tokens) |-> Strip(BeforeColon(tokens[i]))]
    IN  Concat([i \in 1..Len(hands) |-> ExpandHand(hands[i], board_cards)])

\* set(spot.board.replace(",", " ").split())
BoardSet(board) == SeqRange(SplitAcc(board, {",", " "}, <<>>, <<>>))

\* ------------------------------------------------------------ opponent sampler
\* the values random.random() is drawn from, in [0, 1)
RDraws == {Rat(0, 1), Rat(1, 2), Rat(9, 10)}

IndexError == <<"IndexError">>

\* a sampler that takes an entry only when the running sum exceeds the draw
RECURSIVE InverseCdfStrict(_, _, _, _, _)
InverseCdfStrict(entries, freqs, r, i, cumulative) ==
    IF i > Len(entries) \/ i > Len(freqs) THEN entries[Len(entries)].name
    ELSE LET c == RAdd(cumulative, freqs[i])
         IN  IF RLess(r, c) THEN entries[i].name
             ELSE InverseCdfStrict(entries, freqs, r, i + 1, c)

RECURSIVE InverseCdf(_, _, _, _, _)
InverseCdf(entries, freqs, r, i, cumulative) ==
    IF i > Len(entries) \/ i > Len(freqs) THEN entries[Len(entries)].name
    ELSE LET c == RAdd(cumulative, freqs[i])
         IN  IF RLeq(r, c) THEN entries[i].name
             ELSE InverseCdf(entries, freqs, r, i + 1, c)

\* the indices random.choice(child_keys) is drawn from
ChoiceRange(node) == 1..(IF node.childrens = <<>> THEN 1 ELSE Len(node.childrens))

\* r is the random.random() draw, pick the random.choice index
sample_villain_action(node, villain_combo, r, pick, order) ==
    LET entries == get_action_entries(node)
        strategy == node.strategy
        child_keys == Keys(node.childrens)
    IN  IF strategy = <<>> \/ entries = <<>>
        THEN IF child_keys # <<>> THEN child_keys[pick] ELSE CHECK
        ELSE LET direct == IF villain_combo # NoStr /\ HasKey(strategy, villain_combo)
                           THEN DictGet(strategy, villain_combo) ELSE <<>>
                 iso == IF villain_combo # NoStr
                        THEN find_iso_combo(strategy, villain_combo, order) ELSE NoStr
                 known == IF direct # <<>> THEN direct
                          ELSE IF iso # NoStr THEN DictGet(strategy, iso) ELSE <<>>
                 all_freqs == Values(strategy)
                 short == \E k \in DOMAIN all_freqs : Len(all_freqs[k]) < Len(entries)
                 average == [i \in 1..Len(entries) |->
                               RDivInt(RSum([k \in 1..Len(all_freqs) |-> all_freqs[k][i]]),
                                       Len(all_freqs))]
             IN  IF known # <<>> THEN InverseCdf(entries, known, r, 1, Zero)
                 ELSE IF short THEN IndexError
                 ELSE InverseCdf(entries, average, r, 1, Zero)

\* ------------------------------------------------------------ auto-advance
Outcome(next_node, node_path, new_board_cards, last_villain_action, raised) ==
    [next_node |-> next_node, node_path |-> node_path,
     new_board_cards |-> new_board_cards,
     last_villain_action |-> last_villain_action, raised |-> raised]

\* every result the loop of _advance_to_hero can end with, over its random draws
RECURSIVE AdvanceLoop(_, _, _, _, _, _, _, _)
AdvanceLoop(tree, next_node, node_path, cards, lastv, hero_position, hero_combo, order) ==
    IF next_node = NoNode THEN {Outcome(NoNode, node_path, cards, lastv, FALSE)}
    ELSE LET n == tree[next_node]
         IN  IF n.node_type = "chance_node"
             THEN IF n.deal_cards = <<>>
                  THEN {Outcome(NoNode, node_path, cards, lastv, FALSE)}
                  ELSE UNION {AdvanceLoop(tree, n.deal_cards[i][2],
                                          Append(node_path, n.deal_cards[i][1]),
                                          Append(cards, n.deal_cards[i][1]),
                                          lastv, hero_position, hero_combo, order)
                              : i \in DOMAIN n.deal_cards}
             ELSE IF n.node_type = "action_node"
             THEN IF is_villain_node(n, hero_position, hero_combo)
                  THEN IF get_action_entries(n) = <<>>
                       THEN {Outcome(NoNode, node_path, cards, lastv, FALSE)}
                       ELSE UNION {LET va == sample_villain_action(n, NoStr, r, pick, order)
                                   IN  IF va = IndexError
                                       THEN {Outcome(next_node, node_path, cards, lastv, TRUE)}
                                       ELSE AdvanceLoop(tree,
                                                navigate_tree(tree, Append(node_path, va)),
                                                Append(node_path, va), cards, va,
                                                hero_position, hero_combo, order)
                                   : r \in RDraws, pick \in ChoiceRange(n)}
                  ELSE {Outcome(next_node, node_path, cards, lastv, FALSE)}
             ELSE {Outcome(NoNode, node_path, cards, lastv, FALSE)}

advance_to_hero(tree, node_path, hero_position, hero_combo, order) ==
    AdvanceLoop(tree, navigate_tree(tree, node_path), node_path, <<>>, NoStr,
                hero_position, hero_combo, order)


\* ------------------------------------------------------------ spots
AKs == <<"A", "K", "s">>
AQs == <<"A", "Q", "s">>
Board1 == <<"A", "c", ",", "Q", "d", ",", "K", "s">>

NoSpot == 0             \* body.spot_id is None

BoardFlop == <<"A", "c", ",", "A", "d", ",", "A", "s">>

\* a trainer_spots table: spot 1 is solved, spot 2 is still pending
SpotTable(tree, board) ==
    <<[spot_key |-> "s1", position_matchup |-> "BTN_vs_BB", tree |-> tree,
       range_ip |-> AKs, range_oop |-> AQs, board |-> board,
       pot |-> 10, effective_stack |-> 100, solve_status |-> "ready",
       has_result |-> TRUE],
      [spot_key |-> "s2", position_matchup |-> "CO_vs_BB", tree |-> <<>>,
       range_ip |-> AKs, range_oop |-> AQs, board |-> board,
       pot |-> 10, effective_stack |-> 100, solve_status |-> "pending",
       has_result |-> FALSE]>>

SpotsFlop == SpotTable(TreeFlop, BoardFlop)
SpotsDeep == SpotTable(Tree1, Board1)

\* ------------------------------------------------------------ inputs
Players == {"ann"}
SpotIdInputs == {NoSpot} \cup DOMAIN SpotsFlop
SessionIds == 1..(MaxSessions + 1)
BOGUS == <<"J", "A", "M">>
\* the labels a client can send: those the tree offers somewhere, FOLD, and
\* one label that no tree offers
TreeLabels(tree) ==
    UNION {{tree[n].childrens[i][1] : i \in DOMAIN tree[n].childrens} :
              n \in {m \in DOMAIN tree : tree[m].node_type = "action_node"}}
ChosenActions(tree) == TreeLabels(tree) \cup {FOLD, BOGUS}
PotInputs == {10, 20}     \* pots reported along three streets
PotAtStart == {10}        \* the pot reported on the flop

\* ------------------------------------------------------------ state
VARIABLES
    jobs,           \* _jobs: job i's entry, with the position of its run_solver task
    clients,        \* the ws_progress loops, with the messages each socket got
    semaphore,      \* free permits of _semaphore
    procs,          \* the solver subprocesses spawned so far
    solve_tasks,    \* the created spot solve tasks, oldest first
    spots,          \* trainer_spots rows; row i has id i
    sessions,       \* _sessions: session id -> in-memory session state
    db_sessions,    \* training_sessions rows; row i has id i
    db_stats,       \* player_spot_stats rows by (player, spot_key, hero_position)
    perm_order,     \* this process's iteration order of set(permutations(SUITS))
    resp,           \* the last call: its arguments, its locals at return, its response
    pf              \* the last call of a pure helper: its arguments and its result

vars == <<jobs, clients, semaphore, procs, solve_tasks, spots, sessions, db_sessions,
          db_stats, perm_order, resp, pf>>

\* no job, no socket, no subprocess, the semaphore free
SEMAPHORE_PERMITS == 1
Idle == jobs = <<>> /\ clients = <<>> /\ semaphore = SEMAPHORE_PERMITS /\ procs = <<>>

ReadySpots == {i \in DOMAIN spots : spots[i].solve_status = "ready"}

NoCall == [fn |-> "none", node |-> OtherNode(""), out |-> <<>>]

NoResp ==
    [op |-> "none", sid |-> 0, status |-> 0, detail |-> "",
     next_node |-> NoNode, node_path |-> <<>>, new_board_cards |-> <<>>,
     hero_combo |-> NoStr, hero_position |-> "",
     node_type |-> "", available_actions |-> <<>>, villain_action |-> NoStr,
     is_terminal |-> FALSE, street |-> "", action_history |-> <<>>,
     board |-> <<>>, pot |-> 0, gto_score |-> Zero, decisions |-> <<>>,
     has_state |-> FALSE]

Init ==
    /\ spots = SpotsFlop
    /\ Idle
    /\ solve_tasks = <<>>
    /\ sessions = <<>>
    /\ db_sessions = <<>>
    /\ db_stats = <<>>
    /\ perm_order \in DOMAIN PermOrders
    /\ resp = NoResp
    /\ pf = NoCall

\* raise HTTPException(status, detail): nothing is written
Raise(op, sid, status, detail) ==
    /\ resp' = [NoResp EXCEPT !.op = op, !.sid = sid, !.status = status, !.detail = detail]
    /\ UNCHANGED <<jobs, clients, semaphore, procs, solve_tasks, spots, sessions, db_sessions, db_stats, perm_order, pf>>

DealtTag(step) == <<"[">> \o step \o <<"]">>
VillainTag(step) == <<"V", ":">> \o step
HeroTag(step) == <<"H", ":">> \o step
HistoryOf(steps) ==
    [i \in 1..Len(steps) |->
        IF CARD_PAT(steps[i]) THEN DealtTag(steps[i]) ELSE VillainTag(steps[i])]

BoardStr(board, extra) ==
    board \o Concat([i \in 1..Len(extra) |-> <<",">> \o extra[i]])

\* a mutation: the stored value is shared by every key
PutShared(f, k, v) == [x \in DOMAIN f \cup {k} |-> v]

Put(f, k, v) == [x \in DOMAIN f \cup {k} |-> IF x = k THEN v ELSE f[x]]
Pop(f, k) == [x \in DOMAIN f \ {k} |-> f[x]]


\* ------------------------------------------------------------ POST /session/start
\* a mutation: start goes on whatever the auto-advance reached
start_fails_never(out) == out.raised

\* if next_node is None: raise HTTPException(500)
start_fails(out) == out.raised \/ out.next_node = NoNode

start_session(spot_id, player_name) ==
    /\ IF spot_id # NoSpot /\ spot_id \notin ReadySpots
       THEN Raise("start", 0, 404, "Spot not found or not ready")
       ELSE IF ReadySpots = {}
       THEN Raise("start", 0, 503, "No spots solved yet")
       ELSE \E sp \in (IF spot_id # NoSpot THEN {spot_id} ELSE ReadySpots) :
            \E hero_position \in {"ip", "oop"} :
              LET spot == spots[sp]
                  tree == spot.tree
                  range_str == IF hero_position = "ip" THEN spot.range_ip ELSE spot.range_oop
                  combos == parse_range_to_combos(range_str, BoardSet(spot.board))
              IN  IF ~spot.has_result
                  THEN Raise("start", 0, 503, "Spot result not available")
                  ELSE IF combos = <<>>
                  THEN Raise("start", 0, 500, "No valid combos after board removal")
                  ELSE \E ci \in DOMAIN combos :
                       \E out \in advance_to_hero(tree, <<>>, hero_position, combos[ci],
                                                  perm_order) :
                         LET hero_combo == combos[ci]
                             session_id == Len(db_sessions) + 1
                             action_history == HistoryOf(out.node_path)
                             actions == available_actions(tree[out.next_node], hero_combo,
                                                          perm_order)
                         IN  IF start_fails(out)
                             THEN /\ resp' = [NoResp EXCEPT
                                        !.op = "start", !.status = 500,
                                        !.detail = IF out.raised THEN "IndexError"
                                                   ELSE "Could not navigate to hero's first action node",
                                        !.hero_combo = hero_combo,
                                        !.hero_position = hero_position,
                                        !.next_node = out.next_node,
                                        !.node_path = out.node_path,
                                        !.new_board_cards = out.new_board_cards]
                                  /\ UNCHANGED <<jobs, clients, semaphore, procs, solve_tasks, spots, sessions, db_sessions, db_stats, perm_order, pf>>
                             ELSE /\ db_sessions' = Append(db_sessions,
                                        [player_name |-> player_name, spot_id |-> sp,
                                         hero_combo |-> hero_combo,
                                         hero_position |-> hero_position,
                                         decisions_json |-> <<>>, completed |-> FALSE,
                                         gto_score |-> Zero])
                                  /\ sessions' = Put(sessions, session_id,
                                        [spot |-> sp, hero_combo |-> hero_combo,
                                         hero_position |-> hero_position,
                                         player_name |-> player_name,
                                         node_path |-> out.node_path, decisions |-> <<>>,
                                         initial_pot |-> spot.pot,
                                         extra_board_cards |-> out.new_board_cards,
                                         action_history |-> action_history])
                                  /\ resp' = IF out.next_node = NoNode
                                     THEN \* _available_actions(None, ...) raises after the writes
                                          [NoResp EXCEPT
                                             !.op = "start", !.status = 500,
                                             !.detail = "AttributeError",
                                             !.hero_combo = hero_combo,
                                             !.hero_position = hero_position,
                                             !.node_path = out.node_path,
                                             !.new_board_cards = out.new_board_cards]
                                     ELSE [NoResp EXCEPT
                                        !.op = "start", !.sid = session_id, !.status = 200,
                                        !.hero_combo = hero_combo,
                                        !.hero_position = hero_position,
                                        !.next_node = out.next_node,
                                        !.node_path = out.node_path,
                                        !.new_board_cards = out.new_board_cards,
                                        !.node_type = tree[out.next_node].node_type,
                                        !.available_actions = actions,
                                        !.villain_action = out.last_villain_action,
                                        !.is_terminal = (Len(actions) = 0),
                                        !.street = compute_street(out.node_path),
                                        !.action_history = action_history,
                                        !.board = BoardStr(spot.board, out.new_board_cards),
                                        !.pot = spot.pot]
                                  /\ UNCHANGED <<jobs, clients, semaphore, procs, solve_tasks, spots, db_stats, perm_order, pf>>

\* ------------------------------------------------------------ POST /session/{id}/action
\* a mutation: the log is persisted before the decision is appended
decisions_json_before(decisions) == SubSeq(decisions, 1, Len(decisions) - 1)

\* session.decisions_json = list(state["decisions"])
decisions_json_of(decisions) == decisions

submit_action(session_id, chosen_action, pot_at_decision) ==
    IF session_id \notin DOMAIN sessions
    THEN Raise("action", session_id, 404, "Session not found or expired")
    ELSE LET state == sessions[session_id]
             spot == spots[state.spot]
             tree == spot.tree
             hero_combo == state.hero_combo
             hero_position == state.hero_position
             node_path == state.node_path
             current_node == navigate_tree(tree, node_path)
         IN  IF current_node = NoNode
             THEN Raise("action", session_id, 400, "Invalid node path")
             ELSE LET decision ==
                          [node_path |-> node_path, chosen_action |-> chosen_action,
                           gto_freq |-> gto_freq_for_combo(tree[current_node], hero_combo,
                                                           chosen_action, perm_order),
                           all_actions |-> available_actions(tree[current_node], hero_combo,
                                                             perm_order),
                           pot_weight |-> Rat(pot_at_decision,
                                              IF state.initial_pot > 1
                                              THEN state.initial_pot ELSE 1),
                           street |-> compute_street(node_path)]
                      decisions == Append(state.decisions, decision)
                  IN  \E out \in advance_to_hero(tree, Append(node_path, chosen_action),
                                                 hero_position, hero_combo, perm_order) :
                        LET steps_after_hero ==
                                SubSeq(out.node_path, Len(node_path) + 2, Len(out.node_path))
                            action_history ==
                                Append(state.action_history, HeroTag(chosen_action))
                                    \o HistoryOf(steps_after_hero)
                            extra == state.extra_board_cards \o out.new_board_cards
                            actions ==
                                IF out.next_node # NoNode
                                   /\ tree[out.next_node].node_type = "action_node"
                                THEN available_actions(tree[out.next_node], hero_combo,
                                                       perm_order)
                                ELSE <<>>
                        IN  IF out.raised
                            THEN /\ sessions' = [sessions EXCEPT
                                        ![session_id].decisions = decisions]
                                 /\ resp' = [NoResp EXCEPT
                                        !.op = "action", !.sid = session_id,
                                        !.status = 500, !.detail = "IndexError"]
                                 /\ UNCHANGED <<jobs, clients, semaphore, procs, solve_tasks, spots, db_sessions, db_stats, perm_order, pf>>
                            ELSE /\ sessions' = [sessions EXCEPT
                                        ![session_id].decisions = decisions,
                                        ![session_id].node_path = out.node_path,
                                        ![session_id].action_history = action_history,
                                        ![session_id].extra_board_cards = extra]
                                 /\ db_sessions' = [db_sessions EXCEPT
                                        ![session_id].decisions_json =
                                            decisions_json_of(decisions)]
                                 /\ resp' = [NoResp EXCEPT
                                        !.op = "action", !.sid = session_id, !.status = 200,
                                        !.hero_combo = hero_combo,
                                        !.hero_position = hero_position,
                                        !.next_node = out.next_node,
                                        !.node_path = out.node_path,
                                        !.new_board_cards = out.new_board_cards,
                                        !.node_type = IF out.next_node = NoNode THEN "terminal"
                                                      ELSE tree[out.next_node].node_type,
                                        !.available_actions = actions,
                                        !.villain_action = out.last_villain_action,
                                        !.is_terminal = (Len(actions) = 0),
                                        !.street = compute_street(out.node_path),
                                        !.action_history = action_history,
                                        !.board = BoardStr(spot.board, extra),
                                        !.pot = pot_at_decision]
                                 /\ UNCHANGED <<jobs, clients, semaphore, procs, solve_tasks, spots, db_stats, perm_order, pf>>

\* ------------------------------------------------------------ POST /session/{id}/complete
GtoFreqs(decisions) == [i \in 1..Len(decisions) |-> decisions[i].gto_freq]

RMul(a, b) == Rat(a.n * b.n, a.d * b.d)

\* a mutation: the pot-weighted mean of the legacy trainer
session_score_pot_weighted(decisions) ==
    LET weights == [i \in 1..Len(decisions) |-> decisions[i].pot_weight]
        weighted == [i \in 1..Len(decisions) |->
                        RMul(decisions[i].gto_freq, decisions[i].pot_weight)]
        total == RSum(weights)
    IN  IF decisions = <<>> \/ total = Zero THEN Zero
        ELSE Round4(Rat(RSum(weighted).n * total.d, RSum(weighted).d * total.n))

\* round(sum(d["gto_freq"]) / len(decisions), 4), 0.0 without decisions
session_score(decisions) ==
    IF decisions # <<>>
    THEN Round4(RDivInt(RSum(GtoFreqs(decisions)), Len(decisions)))
    ELSE Zero

StatKey(session, spot_db) == <<session.player_name, spot_db.spot_key, session.hero_position>>

\* pg_insert(PlayerSpotStat) ... on_conflict_do_update(uq_player_spot_position)
upsert_stat(stats, key, gto_score) ==
    IF key \notin DOMAIN stats
    THEN Put(stats, key, [sessions_count |-> 1, avg_gto_score |-> gto_score,
                          best_score |-> gto_score, worst_score |-> gto_score])
    ELSE LET old == stats[key]
         IN  Put(stats, key,
                 [sessions_count |-> old.sessions_count + 1,
                  avg_gto_score |->
                      RDivInt(RAdd(RMulInt(old.avg_gto_score, old.sessions_count), gto_score),
                              old.sessions_count + 1),
                  best_score |-> RMax(old.best_score, gto_score),
                  worst_score |-> RMin(old.worst_score, gto_score)])

\* a mutation: complete leaves the in-memory session in place
discard_nothing(sess, session_id) == sess

\* _sessions.pop(session_id, None)
discard_session(sess, session_id) ==
    IF session_id \in DOMAIN sess THEN Pop(sess, session_id) ELSE sess

\* whether the aggregate row is written for this completion
writes_stat(has_session, gto_score) == has_session /\ RLess(Zero, gto_score)

complete_session(session_id) ==
    LET has_state == session_id \in DOMAIN sessions
        has_session == session_id \in DOMAIN db_sessions
        in_memory == IF has_state THEN sessions[session_id].decisions ELSE <<>>
        decisions == IF in_memory = <<>> /\ has_session
                     THEN db_sessions[session_id].decisions_json
                     ELSE in_memory
        gto_score == session_score(decisions)
        key == StatKey(db_sessions[session_id], spots[db_sessions[session_id].spot_id])
        upsert == writes_stat(has_session, gto_score)
    IN  /\ upsert /\ key \in DOMAIN db_stats => db_stats[key].sessions_count < MaxCount
        /\ db_sessions' = IF has_session
                          THEN [db_sessions EXCEPT ![session_id].completed = TRUE,
                                                   ![session_id].gto_score = gto_score,
                                                   ![session_id].decisions_json = decisions]
                          ELSE db_sessions
        /\ db_stats' = IF upsert THEN upsert_stat(db_stats, key, gto_score) ELSE db_stats
        /\ sessions' = discard_session(sessions, session_id)
        /\ resp' = [NoResp EXCEPT !.op = "complete", !.sid = session_id, !.status = 200,
                                  !.gto_score = gto_score, !.decisions = decisions,
                                  !.has_state = has_state]
        /\ UNCHANGED <<jobs, clients, semaphore, procs, solve_tasks, spots, perm_order, pf>>

\* ------------------------------------------------------------ specification
\* clients of the flop-only spot, with as many sessions as the bound allows
Next ==
    \/ \E spot_id \in SpotIdInputs, player_name \in Players :
           Len(db_sessions) < MaxSessions /\ start_session(spot_id, player_name)
    \/ \E session_id \in SessionIds, chosen_action \in ChosenActions(spots[1].tree),
          pot_at_decision \in PotAtStart :
           submit_action(session_id, chosen_action, pot_at_decision)
    \/ \E session_id \in SessionIds : complete_session(session_id)

Spec == Init /\ [][Next]_vars

\* clients whose sessions of the flop-only spot overlap
MaxClients == 2         \* sessions that may be open together
NextClients ==
    \/ \E spot_id \in SpotIdInputs, player_name \in Players :
           Len(db_sessions) < MaxClients /\ start_session(spot_id, player_name)
    \/ \E session_id \in 1..MaxClients, chosen_action \in TreeLabels(spots[1].tree),
          pot_at_decision \in PotAtStart :
           submit_action(session_id, chosen_action, pot_at_decision)
    \/ \E session_id \in 1..MaxClients : complete_session(session_id)

InitClients ==
    /\ spots = SpotsFlop
    /\ Idle
    /\ solve_tasks = <<>>
    /\ sessions = <<>>
    /\ db_sessions = <<>>
    /\ db_stats = <<>>
    /\ perm_order = 1
    /\ resp = NoResp
    /\ pf = NoCall

SpecClients == InitClients /\ [][NextClients]_vars

\* one client playing one session of the three-street spot
InitDeep ==
    /\ spots = SpotsDeep
    /\ Idle
    /\ solve_tasks = <<>>
    /\ sessions = <<>>
    /\ db_sessions = <<>>
    /\ db_stats = <<>>
    /\ perm_order \in DOMAIN PermOrders
    /\ resp = NoResp
    /\ pf = NoCall

NextDeep ==
    \/ \E spot_id \in SpotIdInputs, player_name \in Players :
           db_sessions = <<>> /\ start_session(spot_id, player_name)
    \/ \E session_id \in SessionIds, chosen_action \in ChosenActions(spots[1].tree),
          pot_at_decision \in PotInputs :
           submit_action(session_id, chosen_action, pot_at_decision)
    \/ \E session_id \in SessionIds : complete_session(session_id)

SpecDeep == InitDeep /\ [][NextDeep]_vars


\* the process is started again: _sessions is empty, the rows stay, spots left
\* in "solving" are pending again, the suit permutations get a new order
restart ==
    /\ sessions' = <<>>
    /\ spots' = [i \in DOMAIN spots |->
                    IF spots[i].solve_status = "solving"
                    THEN [spots[i] EXCEPT !.solve_status = "pending"] ELSE spots[i]]
    /\ perm_order' \in DOMAIN PermOrders
    /\ resp' = [NoResp EXCEPT !.op = "restart"]
    /\ UNCHANGED <<jobs, clients, semaphore, procs, solve_tasks, db_sessions, db_stats, pf>>

\* one client playing one session of the three-street spot across restarts
NextRestart == NextDeep \/ (sessions # <<>> /\ restart)

SpecRestart == InitDeep /\ [][NextRestart]_vars

\* a result file whose first two nodes carry no "player": the ownership test
\* falls back on the strategy keys
TreeBare ==
    <<ActionNode(NoPlayer, <<<<CHECK, 2>>, <<BET, 3>>>>, <<>>),
      ActionNode(NoPlayer, <<<<CHECK, 4>>>>, << <<AhKh, <<F(10000)>>>> >>),
      ActionNode(1, <<<<CALL, 4>>>>, << <<AhKh, <<F(10000)>>>> >>),
      ChanceNode(<<<<Td, 5>>>>),
      ActionNode(0, <<<<CHECK, 6>>>>, << <<AhQh, <<F(10000)>>>> >>),
      OtherNode("showdown_node")>>
SpotsBare == SpotTable(TreeBare, BoardFlop)

\* one client playing one session of the spot without "player" fields
InitBare ==
    /\ spots = SpotsBare
    /\ Idle
    /\ solve_tasks = <<>>
    /\ sessions = <<>>
    /\ db_sessions = <<>>
    /\ db_stats = <<>>
    /\ perm_order = 1
    /\ resp = NoResp
    /\ pf = NoCall

SpecBare == InitBare /\ [][NextDeep]_vars

\* a result file whose second node stores vectors of unequal length
AdKd == <<"A", "d", "K", "d">>
TreeRagged ==
    <<ActionNode(0, <<<<CHECK, 2>>>>, << <<AhQh, <<F(10000)>>>> >>),
      ActionNode(1, <<<<CHECK, 3>>, <<BET, 3>>>>,
                 << <<AhKh, <<F(5000), F(5000)>>>>, <<AdKd, <<F(10000)>>>> >>),
      OtherNode("showdown_node")>>

MaxDecisions == 2       \* decisions a session may hold before the next submit

\* one client playing one session of that spot
InitRaise ==
    /\ spots = SpotTable(TreeRagged, BoardFlop)
    /\ Idle
    /\ solve_tasks = <<>>
    /\ sessions = <<>>
    /\ db_sessions = <<>>
    /\ db_stats = <<>>
    /\ perm_order = 1
    /\ resp = NoResp
    /\ pf = NoCall

NextRaise ==
    \/ \E spot_id \in SpotIdInputs, player_name \in Players :
           db_sessions = <<>> /\ start_session(spot_id, player_name)
    \/ \E session_id \in SessionIds, chosen_action \in ChosenActions(spots[1].tree),
          pot_at_decision \in PotInputs :
           /\ session_id \in DOMAIN sessions
                => Len(sessions[session_id].decisions) < MaxDecisions
           /\ submit_action(session_id, chosen_action, pot_at_decision)
    \/ \E session_id \in SessionIds : complete_session(session_id)

SpecRaise == InitRaise /\ [][NextRaise]_vars

\* ------------------------------------------------------------ entry derivation alone
MaxChildren == 2        \* children of an input node
MaxVecLen == 3          \* length of an input frequency vector

RAISE == <<"R", "A", "I", "S", "E">>
ChildLabels == <<CHECK, BET, CALL, RAISE>>
ChildrenInputs == {[i \in 1..n |-> <<ChildLabels[i], i + 1>>] : n \in 0..MaxChildren}
VectorInputs == UNION {[1..len -> {Zero, One}] : len \in 0..MaxVecLen}
StrategyInputs ==
    {<<>>} \cup {<< <<AhKh, v>> >> : v \in VectorInputs}
           \cup {<< <<AhKh, v>>, <<AhQh, w>> >> : v, w \in VectorInputs}
NodeInputs == {ActionNode(0, ch, st) : ch \in ChildrenInputs, st \in StrategyInputs}

\* an input node is drawn; no session exists
InitEntries ==
    /\ spots = SpotsFlop
    /\ Idle
    /\ solve_tasks = <<>>
    /\ sessions = <<>>
    /\ db_sessions = <<>>
    /\ db_stats = <<>>
    /\ perm_order = 1
    /\ resp = NoResp
    /\ pf \in {[fn |-> "input", node |-> node, out |-> <<>>] : node \in NodeInputs}

call_get_action_entries ==
    /\ pf.fn = "input"
    /\ pf' = [pf EXCEPT !.fn = "get_action_entries", !.out = get_action_entries(pf.node)]
    /\ UNCHANGED <<jobs, clients, semaphore, procs, solve_tasks, spots, sessions, db_sessions, db_stats, perm_order, resp>>

call_gto_get_action_entries ==
    /\ pf.fn = "input"
    /\ pf' = [pf EXCEPT !.fn = "gto_get_action_entries",
                        !.out = gto_get_action_entries(pf.node)]
    /\ UNCHANGED <<jobs, clients, semaphore, procs, solve_tasks, spots, sessions, db_sessions, db_stats, perm_order, resp>>

NextEntries == call_get_action_entries \/ call_gto_get_action_entries

SpecEntries == InitEntries /\ [][NextEntries]_vars

\* ------------------------------------------------------------ combo resolution alone
AsKs == <<"A", "s", "K", "s">>
AcKc == <<"A", "c", "K", "c">>
KcAc == <<"K", "c", "A", "c">>
QdJd == <<"Q", "d", "J", "d">>
TcTd == <<"T", "c", "T", "d">>

\* keys a table may store, in the file's order, and the combos looked up
KeyPool == <<AsKs, AhKh, QdJd>>
ComboInputs == {AsKs, AcKc, KcAc, TcTd}
ActionInputs == SeqRange(ChildLabels) \cup {FOLD, BOGUS}

\* the j-th stored key's vector of length len; the vectors of a table differ
FreqCycle == <<F(0), F(2500), F(7500)>>
VectorOf(j, len) == [i \in 1..len |-> FreqCycle[((i + j) % 3) + 1]]

\* tables as the solver writes them: every vector has one length, one per
\* child or one more
TableInputs(n) ==
    {<<>>} \cup
    {LET kept == SelectSeq(<<1, 2, 3>>, LAMBDA j : j \in js)
     IN  [k \in 1..Len(kept) |-> <<KeyPool[kept[k]], VectorOf(kept[k], len)>>] :
         js \in (SUBSET {1, 2, 3}) \ {{}}, len \in {n, n + 1} \ {0}}

ComboNodeInputs ==
    UNION {{ActionNode(0, ch, st) : st \in TableInputs(Len(ch))} : ch \in ChildrenInputs}

InputCall(node) ==
    [fn |-> "input", node |-> node, combo |-> NoStr, action |-> NoStr,
     r |-> Zero, out |-> <<>>]

\* a node is drawn; the process has one permutation order; no session exists
InitCombo ==
    /\ spots = SpotsFlop
    /\ Idle
    /\ solve_tasks = <<>>
    /\ sessions = <<>>
    /\ db_sessions = <<>>
    /\ db_stats = <<>>
    /\ perm_order \in DOMAIN PermOrders
    /\ resp = NoResp
    /\ pf \in {InputCall(node) : node \in ComboNodeInputs}

Called(fn, combo, action, r, out) ==
    /\ pf.fn = "input"
    /\ pf' = [pf EXCEPT !.fn = fn, !.combo = combo, !.action = action, !.r = r,
                        !.out = out]
    /\ UNCHANGED <<jobs, clients, semaphore, procs, solve_tasks, spots, sessions, db_sessions, db_stats, perm_order, resp>>

call_gto_freq_for_combo ==
    \E combo \in ComboInputs, action \in ActionInputs :
        Called("gto_freq_for_combo", combo, action, Zero,
               gto_freq_for_combo(pf.node, combo, action, perm_order))

call_hands_gto_freq_for_combo ==
    \E combo \in ComboInputs, action \in ActionInputs :
        Called("hands_gto_freq_for_combo", combo, action, Zero,
               hands_gto_freq_for_combo(pf.node, combo, action, perm_order))

\* the trainer searches only after the literal key missed
call_find_iso_combo ==
    \E combo \in ComboInputs :
        ~HasKey(pf.node.strategy, combo) /\
        Called("find_iso_combo", combo, NoStr, Zero,
               find_iso_combo(pf.node.strategy, combo, perm_order))

call_gto_find_iso_combo ==
    \E combo \in ComboInputs :
        Called("gto_find_iso_combo", combo, NoStr, Zero,
               gto_find_iso_combo(pf.node.strategy, combo, perm_order))

call_sample_villain_action ==
    \E villain_combo \in ComboInputs \cup {NoStr}, r \in RDraws,
       pick \in ChoiceRange(pf.node) :
        Called("sample_villain_action", villain_combo, NoStr, r,
               sample_villain_action(pf.node, villain_combo, r, pick, perm_order))

NextCombo ==
    \/ call_gto_freq_for_combo
    \/ call_hands_gto_freq_for_combo
    \/ call_find_iso_combo
    \/ call_gto_find_iso_combo
    \/ call_sample_villain_action

SpecCombo == InitCombo /\ [][NextCombo]_vars

\* ------------------------------------------------------------ verb mapping and grade alone
\* the characters of the labels below, in code-point order
CodePoints ==
    <<" ", "0", "1", "2", "5", "A", "B", "C", "D", "E", "F", "H", "I", "K", "L",
      "O", "R", "S", "T">>
Ord(ch) == CHOOSE i \in DOMAIN CodePoints : CodePoints[i] = ch

\* a < b for Python strings
RECURSIVE StrLess(_, _)
StrLess(a, b) ==
    IF b = <<>> THEN FALSE
    ELSE IF a = <<>> THEN TRUE
    ELSE IF Head(a) = Head(b) THEN StrLess(Tail(a), Tail(b))
    ELSE Ord(Head(a)) < Ord(Head(b))

StartsWith(c, prefix) ==
    Len(c) >= Len(prefix) /\ SubSeq(c, 1, Len(prefix)) = prefix

\* a mapping that takes the first child with the prefix in the node's order
map_verb_first_child(verb, children) ==
    IF verb \in {"bets", "raises"}
    THEN LET prefix == IF verb = "bets" THEN BET ELSE RAISE
             matches == SelectSeq(children, LAMBDA c : StartsWith(c, prefix))
         IN  IF matches # <<>> THEN matches[1] ELSE NoStr
    ELSE IF verb = "checks" /\ CHECK \in SeqRange(children) THEN CHECK
    ELSE IF verb = "calls" /\ CALL \in SeqRange(children) THEN CALL
    ELSE IF verb = "folds" /\ FOLD \in SeqRange(children) THEN FOLD
    ELSE NoStr

\* NoStr is None
map_verb_to_solver(verb, children) ==
    IF verb = "checks" THEN (IF CHECK \in SeqRange(children) THEN CHECK ELSE NoStr)
    ELSE IF verb = "calls" THEN (IF CALL \in SeqRange(children) THEN CALL ELSE NoStr)
    ELSE IF verb = "folds" THEN (IF FOLD \in SeqRange(children) THEN FOLD ELSE NoStr)
    ELSE IF verb \in {"bets", "raises"}
    THEN LET prefix == IF verb = "bets" THEN BET ELSE RAISE
             matches == {c \in SeqRange(children) : StartsWith(c, prefix)}
         IN  IF matches # {}
             THEN CHOOSE c \in matches : \A d \in matches \ {c} : StrLess(c, d)
             ELSE NoStr
    ELSE NoStr

\* a grade whose thresholds are exclusive
grade_action_exclusive(gto_freq) ==
    IF RLess(F(7500), gto_freq) THEN "best"
    ELSE IF RLess(F(4000), gto_freq) THEN "correct"
    ELSE IF RLess(F(1500), gto_freq) THEN "inaccuracy"
    ELSE IF RLess(F(500), gto_freq) THEN "wrong"
    ELSE "blunder"

grade_action(gto_freq) ==
    IF RLeq(F(7500), gto_freq) THEN "best"
    ELSE IF RLeq(F(4000), gto_freq) THEN "correct"
    ELSE IF RLeq(F(1500), gto_freq) THEN "inaccuracy"
    ELSE IF RLeq(F(500), gto_freq) THEN "wrong"
    ELSE "blunder"

Bet2 == <<"B", "E", "T", " ", "2">>
Bet10 == <<"B", "E", "T", " ", "1", "0">>
Raise5 == <<"R", "A", "I", "S", "E", " ", "5">>
Raise20 == <<"R", "A", "I", "S", "E", " ", "2", "0">>
LabelPool == {CHECK, CALL, FOLD, Bet2, Bet10, Raise5, Raise20}
\* the keys of a node's childrens, in the file's order
LabelLists ==
    UNION {{ls \in [1..n -> LabelPool] : \A i, j \in 1..n : i # j => ls[i] # ls[j]} :
              n \in 0..MaxChildren}
Verbs == {"folds", "checks", "calls", "bets", "raises", "is all-in"}
\* frequencies at and just below each threshold
FreqInputs ==
    {F(k) : k \in {0, 499, 500, 1499, 1500, 3999, 4000, 7499, 7500, 10000}}

InitGrader ==
    /\ spots = SpotsFlop
    /\ Idle
    /\ solve_tasks = <<>>
    /\ sessions = <<>>
    /\ db_sessions = <<>>
    /\ db_stats = <<>>
    /\ perm_order = 1
    /\ resp = NoResp
    /\ pf \in {InputCall(ActionNode(0, [i \in DOMAIN ls |-> <<ls[i], i + 1>>], <<>>)) :
                  ls \in LabelLists}

call_map_verb_to_solver ==
    \E verb \in Verbs :
        Called("map_verb_to_solver", NoStr, verb, Zero,
               map_verb_to_solver(verb, Keys(pf.node.childrens)))

call_grade_action ==
    \E gto_freq \in FreqInputs :
        Called("grade_action", NoStr, NoStr, gto_freq, grade_action(gto_freq))

NextGrader == call_map_verb_to_solver \/ call_grade_action

SpecGrader == InitGrader /\ [][NextGrader]_vars

\* ------------------------------------------------------------ hand analysis
SRP_POT == 70
SRP_STACK == 930
THREE_BET_POT == 200
THREE_BET_STACK == 800
MaxTasks == 2           \* created solve tasks (the handler's guard)

\* (matchup_key, hero_role), or <<>> for None; positions are stored in upper case
resolve_matchup(hero_pos) ==
    IF hero_pos \in {"BTN", "CO", "HJ"} THEN <<hero_pos \o "_vs_BB", "ip">>
    ELSE IF hero_pos = "SB" THEN <<"SB_vs_BB", "oop">>
    ELSE IF hero_pos = "BB" THEN <<"BTN_vs_BB", "oop">>
    ELSE <<>>

StreetNames == <<"flop", "turn", "river">>
\* board[6:8] and board[8:10], NoStr for None
StreetCard(board, k) ==
    IF k = 2 /\ Len(board) >= 8 THEN SubSeq(board, 7, 8)
    ELSE IF k = 3 /\ Len(board) >= 10 THEN SubSeq(board, 9, 10)
    ELSE NoStr

\* the while loop over one street's actions; a decision also keeps the node
\* and the path it was taken at
RECURSIVE WalkActions(_, _, _, _, _, _, _, _)
WalkActions(tree, hero_combo, street, street_actions, action_idx, node_path, decisions, order) ==
    LET current_node == gto_navigate_tree(tree, node_path)
    IN  IF \/ action_idx > Len(street_actions)
           \/ current_node = NoNode
           \/ tree[current_node].node_type # "action_node"
        THEN [node_path |-> node_path, decisions |-> decisions]
        ELSE LET node == tree[current_node]
                 action_data == street_actions[action_idx]
                 children == Keys(node.childrens)
                 solver_action == map_verb_to_solver(action_data.action, children)
                 hero_gto_freq ==
                     IF solver_action # NoStr
                     THEN hands_gto_freq_for_combo(node, hero_combo, solver_action, order)
                     ELSE Zero
                 dec == [street |-> street,
                         hero_action |-> action_data.action,
                         matched_solver_action |-> solver_action,
                         gto_actions |-> gto_available_actions(node, hero_combo, order),
                         hero_gto_freq |-> Round4(hero_gto_freq),
                         grade |-> grade_action(hero_gto_freq),
                         range_strategy |-> node.strategy,
                         action_entries |-> gto_get_action_entries(node),
                         node |-> current_node,
                         node_path |-> node_path]
                 recorded == IF action_data.is_hero THEN Append(decisions, dec)
                             ELSE decisions
             IN  IF solver_action # NoStr /\ solver_action \in SeqRange(children)
                 THEN WalkActions(tree, hero_combo, street, street_actions,
                                  action_idx + 1, Append(node_path, solver_action),
                                  recorded, order)
                 ELSE [node_path |-> node_path, decisions |-> recorded]

\* a mutation: hero's hole cards are not excluded
street_card_unfiltered(deal_cards, street_card, hero_combo) ==
    IF HasKey(deal_cards, street_card) THEN street_card
    ELSE IF deal_cards # <<>> THEN Keys(deal_cards)[1] ELSE NoStr

\* the card appended at a chance node, NoStr when none is available
street_card_to_append(deal_cards, street_card, hero_combo) ==
    LET hero_cards == {SubSeq(hero_combo, 1, 2), SubSeq(hero_combo, 3, Len(hero_combo))}
        available == SelectSeq(Keys(deal_cards), LAMBDA c : c \notin hero_cards)
    IN  IF HasKey(deal_cards, street_card) /\ street_card \notin hero_cards
        THEN street_card
        ELSE IF available # <<>> THEN available[1] ELSE NoStr

\* the for loop over flop, turn and river from street k on; dealt keeps, for
\* every card appended, the street, the hand's card and the chance node, and
\* lacking keeps the street whose data the tree did not hold, with the
\* decisions collected when the loop found that out
NoLack == [street |-> "", decisions |-> <<>>]
\* entering one street: the breaks and the continue before the while loop, and
\* the card appended at a chance node; outcome says how the for loop goes on
enter_street(tree, hand, k, node_path, decisions, dealt) ==
    LET street == StreetNames[k]
        street_card == StreetCard(hand.board, k)
        current_node == gto_navigate_tree(tree, node_path)
        lack == [street |-> street, decisions |-> decisions]
        here(outcome, lacking) ==
            [outcome |-> outcome, node_path |-> node_path, dealt |-> dealt,
             lacking |-> lacking]
    IN  IF hand.actions_json[street] = <<>> THEN here("break", NoLack)
        ELSE IF current_node = NoNode THEN here("break", lack)
        ELSE IF street_card # NoStr /\ tree[current_node].node_type = "chance_node"
        THEN LET deal_cards == tree[current_node].dealcards
                 card == street_card_to_append(deal_cards, street_card,
                                               hand.hero_hole_cards)
                 path == Append(node_path, card)
                 cards == Append(dealt, [street |-> street, street_card |-> street_card,
                                         node |-> current_node, card |-> card])
             IN  IF deal_cards = <<>>
                 THEN here(IF street = "river" THEN "continue" ELSE "break", lack)
                 ELSE IF card = NoStr THEN here("break", NoLack)
                 ELSE [outcome |-> IF gto_navigate_tree(tree, path) = NoNode
                                   THEN "break" ELSE "walk",
                       node_path |-> path, dealt |-> cards,
                       lacking |-> IF gto_navigate_tree(tree, path) = NoNode
                                   THEN lack ELSE NoLack]
        ELSE here("walk", NoLack)

RECURSIVE AnalyseStreets(_, _, _, _, _, _, _)
AnalyseStreets(tree, hand, k, node_path, decisions, dealt, order) ==
    IF k > 3
    THEN [node_path |-> node_path, decisions |-> decisions, dealt |-> dealt,
          lacking |-> NoLack]
    ELSE LET entered == enter_street(tree, hand, k, node_path, decisions, dealt)
             w == IF entered.outcome = "walk"
                  THEN WalkActions(tree, hand.hero_hole_cards, StreetNames[k],
                                   hand.actions_json[StreetNames[k]], 1,
                                   entered.node_path, decisions, order)
                  ELSE [node_path |-> entered.node_path, decisions |-> decisions]
         IN  IF entered.outcome = "break"
             THEN [node_path |-> entered.node_path, decisions |-> decisions,
                   dealt |-> entered.dealt, lacking |-> entered.lacking]
             ELSE LET later == AnalyseStreets(tree, hand, k + 1, w.node_path,
                                              w.decisions, entered.dealt, order)
                  IN  IF entered.lacking = NoLack THEN later
                      ELSE [later EXCEPT !.lacking = entered.lacking]

RECURSIVE FirstFound(_, _, _)
FirstFound(decisions, hero_combo, order) ==
    IF decisions = <<>> THEN NoStr
    ELSE LET found == IF Head(decisions).range_strategy # <<>>
                      THEN gto_find_iso_combo(Head(decisions).range_strategy,
                                              hero_combo, order)
                      ELSE NoStr
         IN  IF found # NoStr THEN found
             ELSE FirstFound(Tail(decisions), hero_combo, order)

\* GTOAnalysis with its defaults
Analysis(status, spot_key, note) ==
    [status |-> status, matched_spot_key |-> spot_key, hero_combo |-> NoStr,
     hero_iso_combo |-> NoStr, decisions |-> <<>>, note |-> note]

\* the response of the endpoint, with the walk's locals at return
Respond(hand, status, analysis, walked) ==
    resp' = [op |-> "gto", hand |-> hand, status |-> status, analysis |-> analysis,
             node_path |-> walked.node_path, dealt |-> walked.dealt,
             lacking |-> walked.lacking]
NoWalk == [node_path |-> <<>>, decisions |-> <<>>, dealt |-> <<>>, lacking |-> NoLack]

\* a mutation: a walk that met a street without data returns no decisions
analysis_without_partial(spot, hand, walked, order) ==
    [status |-> "ready", matched_spot_key |-> spot.spot_key,
     hero_combo |-> hand.hero_hole_cards, hero_iso_combo |-> NoStr,
     decisions |-> IF walked.lacking = NoLack THEN walked.decisions ELSE <<>>,
     note |-> ""]

\* the GTOAnalysis returned after the walk
analysis_of_walk(spot, hand, walked, order) ==
    [status |-> "ready", matched_spot_key |-> spot.spot_key,
     hero_combo |-> hand.hero_hole_cards,
     hero_iso_combo |-> FirstFound(walked.decisions, hand.hero_hole_cards, order),
     decisions |-> walked.decisions, note |-> ""]

SpotKey(matchup_key, pot_type, flop_raw) == <<"hd3", matchup_key, pot_type, flop_raw>>
SpotWithKey(key) ==
    LET hits == {i \in DOMAIN spots : spots[i].spot_key = key}
    IN  IF hits = {} THEN NoSpot ELSE CHOOSE i \in hits : TRUE

\* asyncio.create_task(_solve_hand_spot(spot.id)): a task that has not run yet
SolveTask(spot_id) ==
    [spot_id |-> spot_id, pc |-> "created", seen |-> "", proc |-> 0, solved_ok |-> FALSE]

\* GET /{hand_id}/gto; lookup is the hand row found, of kind "row", or says
\* "invalid" for a malformed id and "missing" for no row of this player
get_hand_gto_analysis(lookup) ==
    LET hand == lookup
        quiet == UNCHANGED <<solve_tasks, spots>>
        rest == UNCHANGED <<jobs, clients, semaphore, procs, sessions, db_sessions, db_stats,
                             perm_order, pf>>
    IN
    /\ rest
    /\ IF lookup.kind = "invalid"
       THEN Respond(lookup, 400, Analysis("", NoStr, "Invalid hand id"), NoWalk) /\ quiet
       ELSE IF lookup.kind = "missing"
       THEN Respond(lookup, 404, Analysis("", NoStr, "Hand not found"), NoWalk) /\ quiet
       ELSE IF hand.hero_position = "" \/ hand.hero_hole_cards = NoStr
       THEN Respond(hand, 200, Analysis("ready", NoStr, "missing position or hole cards"),
                    NoWalk) /\ quiet
       ELSE IF Len(hand.board) < 6
       THEN Respond(hand, 200, Analysis("ready", NoStr, "missing board data"), NoWalk)
            /\ quiet
       ELSE IF resolve_matchup(hand.hero_position) = <<>>
       THEN Respond(hand, 200, Analysis("ready", NoStr, "no solved spot for this position"),
                    NoWalk) /\ quiet
       ELSE
       LET matchup_key == resolve_matchup(hand.hero_position)[1]
           preflop_acts == hand.actions_json.preflop
           raise_count == Cardinality({i \in DOMAIN preflop_acts :
                                          preflop_acts[i].action = "raises"})
           is_3bet == raise_count >= 2
           pot_type == IF is_3bet THEN "3bet" ELSE "srp"
           flop_raw == SubSeq(hand.board, 1, 6)
           spot_key == SpotKey(matchup_key, pot_type, flop_raw)
           found == SpotWithKey(spot_key)
           created == [spot_key |-> spot_key, position_matchup |-> matchup_key,
                       tree |-> <<>>,
                       range_ip |-> <<matchup_key, "ip">>,
                       range_oop |-> <<matchup_key, "oop">>,
                       board |-> <<flop_raw[1], flop_raw[2], ",", flop_raw[3],
                                   flop_raw[4], ",", flop_raw[5], flop_raw[6]>>,
                       pot |-> IF is_3bet THEN THREE_BET_POT ELSE SRP_POT,
                       effective_stack |-> IF is_3bet THEN THREE_BET_STACK ELSE SRP_STACK,
                       solve_status |-> "pending", has_result |-> FALSE]
           table == IF found = NoSpot THEN Append(spots, created) ELSE spots
           id == IF found = NoSpot THEN Len(table) ELSE found
           spot == table[id]
           queued == (IF found = NoSpot THEN <<SolveTask(id)>> ELSE <<>>)
                     \o (IF spot.solve_status = "pending" THEN <<SolveTask(id)>> ELSE <<>>)
       IN  /\ Len(solve_tasks) + Len(queued) <= MaxTasks
           /\ spots' = table
           /\ solve_tasks' = solve_tasks \o queued
           /\ IF spot.solve_status # "ready"
              THEN Respond(hand, 200, Analysis(spot.solve_status, spot_key, "please wait"),
                           NoWalk)
              ELSE IF ~spot.has_result \/ spot.tree = <<>>
              THEN Respond(hand, 200, Analysis("ready", NoStr, "result file missing"),
                           NoWalk)
              ELSE LET walked == AnalyseStreets(spot.tree, hand, 1, <<>>, <<>>, <<>>,
                                                perm_order)
                   IN  Respond(hand, 200, analysis_of_walk(spot, hand, walked, perm_order),
                               walked)

\* a result file of the on-demand solve: the turn and the river are dumped or
\* not, the river subtree may be null, and the chance nodes' cards are stored
\* under "dealcards" or under "deal_cards"
Cards(dealcards, dumped, spelled) ==
    IF ~dumped THEN DealcardsNode(<<>>)
    ELSE IF spelled = "dealcards" THEN DealcardsNode(dealcards)
    ELSE ChanceNode(dealcards)

HandTree(turn, river, spelled) ==
    <<ActionNode(0, <<<<CHECK, 2>>, <<Bet2, 3>>>>, << <<AhQh, <<F(5000), F(5000)>>>> >>),
      ActionNode(1, <<<<CHECK, 4>>, <<Bet2, 5>>>>,
                 << <<AsKs, <<F(6000), F(4000)>>>>, <<AhKh, <<F(8000), F(2000)>>>> >>),
      ActionNode(1, <<<<CALL, 6>>>>, << <<AhKh, <<F(2500), F(7500)>>>> >>),
      Cards(<<<<Ah, 7>>, <<Td, 7>>>>, turn, spelled),
      ActionNode(0, <<<<CALL, 6>>>>, << <<AhQh, <<F(3000), F(7000)>>>> >>),
      Cards(<<<<Td, 7>>>>, turn, spelled),
      ActionNode(0, <<<<CHECK, 8>>>>, << <<AhQh, <<F(10000)>>>> >>),
      ActionNode(1, <<<<CHECK, 9>>, <<Bet2, 10>>>>, << <<AhKh, <<F(4000), F(6000)>>>> >>),
      Cards(<<<<c3, IF river = "null" THEN NoNode ELSE 11>>>>, river # "none", spelled),
      ActionNode(0, <<>>, <<>>),
      ActionNode(0, <<<<CHECK, 12>>>>, << <<AhQh, <<F(10000)>>>> >>),
      ActionNode(1, <<<<CHECK, 13>>, <<Bet2, 13>>>>, << <<AhKh, <<F(1000), F(9000)>>>> >>),
      OtherNode("showdown_node")>>

HandTrees ==
    {HandTree(TRUE, "dumped", "dealcards"), HandTree(TRUE, "none", "dealcards"),
     HandTree(TRUE, "null", "dealcards"), HandTree(FALSE, "none", "dealcards"),
     HandTree(TRUE, "dumped", "deal_cards")}

\* the on-demand spot of the hands below, as a row of trainer_spots
FlopRaw == <<"A", "c", "Q", "d", "K", "s">>
HandSpot(solve_status, has_result, tree) ==
    [spot_key |-> SpotKey("BTN_vs_BB", "srp", FlopRaw), position_matchup |-> "BTN_vs_BB",
     tree |-> tree, range_ip |-> <<"BTN_vs_BB", "ip">>,
     range_oop |-> <<"BTN_vs_BB", "oop">>,
     board |-> <<"A", "c", ",", "Q", "d", ",", "K", "s">>,
     pot |-> SRP_POT, effective_stack |-> SRP_STACK,
     solve_status |-> solve_status, has_result |-> has_result]
HandSpotTables ==
    {<<>>, <<HandSpot("pending", FALSE, <<>>)>>, <<HandSpot("failed", FALSE, <<>>)>>,
     <<HandSpot("ready", FALSE, <<>>)>>}
    \cup {<<HandSpot("ready", TRUE, tree)>> : tree \in HandTrees}

\* hands as the parser stores them
Act(is_hero, verb) == [is_hero |-> is_hero, action |-> verb]
Srp == <<Act(TRUE, "raises"), Act(FALSE, "calls")>>
ThreeBet == <<Act(TRUE, "raises"), Act(FALSE, "raises"), Act(TRUE, "calls")>>
FlopActs ==
    {<<>>} \cup {<<Act(FALSE, "checks"), Act(TRUE, v)>> : v \in {"checks", "bets"}}
           \cup {<<Act(FALSE, "bets"), Act(TRUE, v)>> : v \in {"folds", "calls", "raises"}}
LaterActs ==
    {<<>>} \cup {<<Act(FALSE, "checks"), Act(TRUE, v)>> : v \in {"checks", "bets"}}
s9 == <<"9", "s">>
Boards ==
    {FlopRaw} \cup {FlopRaw \o t : t \in {Td, s9, Ah}}
              \cup {FlopRaw \o t \o c3 : t \in {Td, s9, Ah}}
HandRow(hero_position, hero_hole_cards, board, preflop, flop, turn, river) ==
    [kind |-> "row", hero_position |-> hero_position,
     hero_hole_cards |-> hero_hole_cards, board |-> board,
     actions_json |-> [preflop |-> preflop, flop |-> flop, turn |-> turn,
                       river |-> river]]
HandInputs ==
    {HandRow("BTN", AhKh, b, Srp, f, t, r) :
        b \in Boards, f \in FlopActs, t \in LaterActs, r \in LaterActs}
    \cup {HandRow("EP", AhKh, FlopRaw, Srp, <<>>, <<>>, <<>>),
          HandRow("", AhKh, FlopRaw, Srp, <<>>, <<>>, <<>>),
          HandRow("BTN", AhKh, <<>>, Srp, <<>>, <<>>, <<>>),
          HandRow("BB", AhKh, FlopRaw, ThreeBet, <<>>, <<>>, <<>>)}
Lookups ==
    HandInputs \cup {[kind |-> "invalid"], [kind |-> "missing"]}

InitHand ==
    /\ spots \in HandSpotTables
    /\ Idle
    /\ solve_tasks = <<>>
    /\ sessions = <<>>
    /\ db_sessions = <<>>
    /\ db_stats = <<>>
    /\ perm_order \in DOMAIN PermOrders
    /\ resp = NoResp
    /\ pf = NoCall

\* a client asks for one hand and refreshes
NextHand ==
    \E lookup \in Lookups :
        /\ IF resp.op = "none" THEN TRUE ELSE resp.hand = lookup
        /\ get_hand_gto_analysis(lookup)

SpecHand == InitHand /\ [][NextHand]_vars

\* hands of the big blind, who acts first on every street
CalledRaise == <<Act(FALSE, "raises"), Act(TRUE, "calls")>>
HeroFirstFlop ==
    {<<Act(TRUE, "checks"), Act(FALSE, "checks")>>,
     <<Act(TRUE, "checks"), Act(FALSE, "bets"), Act(TRUE, "calls")>>,
     <<Act(TRUE, "checks"), Act(FALSE, "bets"), Act(TRUE, "raises"), Act(FALSE, "calls")>>,
     <<Act(TRUE, "bets"), Act(FALSE, "calls")>>,
     <<Act(TRUE, "bets"), Act(FALSE, "raises"), Act(TRUE, "calls")>>}
HeroFirstLater ==
    {<<>>, <<Act(TRUE, "checks"), Act(FALSE, "checks")>>,
     <<Act(TRUE, "bets"), Act(FALSE, "calls")>>}
\* a street has actions only when its card is on the board and the street
\* before it was played
Playable(h) ==
    /\ h.actions_json.turn # <<>> => Len(h.board) >= 8
    /\ h.actions_json.river # <<>> => (h.actions_json.turn # <<>> /\ Len(h.board) >= 10)
HeroFirstInputs ==
    {h \in {HandRow("BB", AhQh, b, CalledRaise, f, t, r) :
                b \in Boards, f \in HeroFirstFlop, t \in HeroFirstLater,
                r \in HeroFirstLater} : Playable(h)}

\* a client asks for one hand of the big blind and refreshes
NextStreets ==
    \E lookup \in HeroFirstInputs :
        /\ IF resp.op = "none" THEN TRUE ELSE resp.hand = lookup
        /\ get_hand_gto_analysis(lookup)

SpecStreets == InitHand /\ [][NextStreets]_vars

\* ------------------------------------------------------------ solver jobs
MaxJobs == 1            \* jobs created by POST /api/solve
MaxLines == 2           \* lines a subprocess writes
MaxSockets == 1         \* websocket connections

\* kw in line
Contains(line, kw) ==
    \E i \in 1..(Len(line) - Len(kw) + 1) : SubSeq(line, i, i + Len(kw) - 1) = kw
Keywords ==
    {<<"I", "t", "e", "r", ":">>,
     <<"e", "x", "p", "l", "o", "i", "t", "a", "b", "i", "l", "i", "t", "y">>,
     <<"t", "i", "m", "e", " ", "u", "s", "e", "d">>, <<"S", "O", "L", "V", "I", "N", "G">>,
     <<"S", "T", "A", "R", "T">>}
KeepsLine(line) == \E kw \in Keywords : Contains(line, kw)

\* the n-th raw line of a subprocess: an iteration result or a progress bar
RawLines(n) ==
    {<<"I", "t", "e", "r", ":", " ", <<"1", "2", "3", "4">>[n], "\n">>,
     <<"[", "=", "=", "=", "=", ">", " ", " ", " ", "]", "\n">>}
RECURSIVE rstrip(_)
rstrip(line) ==
    IF line # <<>> /\ line[Len(line)] \in {" ", "\n"}
    THEN rstrip(SubSeq(line, 1, Len(line) - 1)) ELSE line

\* a subprocess: alive until it exits with a return code, having written the
\* result file or not
Spawned == [alive |-> TRUE, returncode |-> 0, result |-> FALSE, written |-> 0]
Running == {p \in DOMAIN procs : procs[p].alive}

\* a mutation: the result file is not looked for
job_outcome_by_code(returncode, result_exists) ==
    IF returncode # 0 THEN "failed" ELSE "done"

\* the status run_solver ends with once the subprocess has exited
job_outcome(returncode, result_exists) ==
    IF returncode # 0 THEN "failed"
    ELSE IF ~result_exists THEN "failed"
    ELSE "done"

JobsQuiet ==
    UNCHANGED <<solve_tasks, spots, sessions, db_sessions, db_stats, perm_order, pf>>

\* POST /api/solve: create_job and create_task(run_solver(job_id))
solve ==
    /\ Len(jobs) < MaxJobs
    /\ jobs' = Append(jobs, [status |-> "pending", progress |-> <<>>, error |-> NoStr,
                             pc |-> "created", proc |-> 0])
    /\ resp' = [NoResp EXCEPT !.op = "solve", !.sid = Len(jobs) + 1, !.status = 202]
    /\ UNCHANGED <<clients, semaphore, procs>>
    /\ JobsQuiet

\* run_solver up to its first await: the semaphore is taken, the job runs
run_solver_enter(job_id) ==
    /\ jobs[job_id].pc = "created"
    /\ semaphore > 0
    /\ semaphore' = semaphore - 1
    /\ jobs' = [jobs EXCEPT ![job_id].status = "running", ![job_id].pc = "spawn"]
    /\ UNCHANGED <<clients, procs, resp>>
    /\ JobsQuiet

\* create_subprocess_exec returns a process or raises
run_solver_spawn(job_id) ==
    /\ jobs[job_id].pc = "spawn"
    /\ \/ /\ procs' = Append(procs, Spawned)
          /\ jobs' = [jobs EXCEPT ![job_id].pc = "read", ![job_id].proc = Len(procs) + 1]
          /\ UNCHANGED semaphore
       \/ /\ jobs' = [jobs EXCEPT ![job_id].status = "failed",
                                   ![job_id].error = <<"O", "S", "E", "r", "r", "o", "r">>,
                                   ![job_id].pc = "end"]
          /\ semaphore' = semaphore + 1
          /\ UNCHANGED procs
    /\ UNCHANGED <<clients, resp>>
    /\ JobsQuiet

\* one turn of "async for raw_line in proc.stdout": the line is kept or not
run_solver_read(job_id) ==
    /\ jobs[job_id].pc = "read"
    /\ procs[jobs[job_id].proc].alive
    /\ procs[jobs[job_id].proc].written < MaxLines
    /\ \E raw_line \in RawLines(procs[jobs[job_id].proc].written + 1) :
          LET line == rstrip(raw_line)
          IN  jobs' = [jobs EXCEPT ![job_id].progress =
                          IF KeepsLine(line) THEN Append(@, line) ELSE @]
    /\ procs' = [procs EXCEPT ![jobs[job_id].proc].written = @ + 1]
    /\ UNCHANGED <<clients, semaphore, resp>>
    /\ JobsQuiet

\* the read raises (a line longer than _STREAM_LIMIT): "except Exception" marks
\* the job failed and the semaphore is released; the subprocess is not awaited
run_solver_read_raises(job_id) ==
    /\ jobs[job_id].pc = "read"
    /\ procs[jobs[job_id].proc].alive
    /\ jobs' = [jobs EXCEPT ![job_id].status = "failed",
                            ![job_id].error = <<"V", "a", "l", "u", "e", "E", "r", "r", "o", "r">>,
                            ![job_id].pc = "end"]
    /\ semaphore' = semaphore + 1
    /\ UNCHANGED <<clients, procs, resp>>
    /\ JobsQuiet

\* the subprocess exits: stdout ends and proc.wait() returns
proc_exit(p) ==
    /\ procs[p].alive
    /\ \E returncode \in {0, 1}, result \in BOOLEAN :
          procs' = [procs EXCEPT ![p].alive = FALSE, ![p].returncode = returncode,
                                 ![p].result = result]
    /\ UNCHANGED <<jobs, clients, semaphore, resp>>
    /\ JobsQuiet

\* run_solver after proc.wait(): the final status, then the semaphore is released
run_solver_finish(job_id) ==
    /\ jobs[job_id].pc = "read"
    /\ ~procs[jobs[job_id].proc].alive
    /\ LET proc == procs[jobs[job_id].proc]
           status == job_outcome(proc.returncode, proc.result)
       IN  jobs' = [jobs EXCEPT
                       ![job_id].status = status,
                       ![job_id].error =
                           IF proc.returncode # 0 THEN <<"c", "o", "d", "e">>
                           ELSE IF status = "failed" THEN <<"n", "o", " ", "f", "i", "l", "e">>
                           ELSE @,
                       ![job_id].pc = "end"]
    /\ semaphore' = semaphore + 1
    /\ UNCHANGED <<clients, procs, resp>>
    /\ JobsQuiet

\* GET /api/jobs/{job_id}/result
get_result(job_id) ==
    /\ resp' = [NoResp EXCEPT
                   !.op = "result", !.sid = job_id,
                   !.status = IF job_id \notin DOMAIN jobs THEN 404
                              ELSE IF jobs[job_id].status = "failed" THEN 500
                              ELSE IF jobs[job_id].status # "done" THEN 409
                              ELSE IF ~procs[jobs[job_id].proc].result THEN 404
                              ELSE 200]
    /\ UNCHANGED <<jobs, clients, semaphore, procs>>
    /\ JobsQuiet

\* ------------------------------------------------------------ websocket /api/ws/{job_id}
\* sent_count = len(current_lines), once the lines of the batch have been sent
sent_after_batch(sent_count, batch, current_lines) == Len(current_lines)

LineMessage(line, status) == [line |-> line, status |-> status, final |-> FALSE]
FinalMessage(status) == [line |-> NoStr, status |-> status, final |-> TRUE]

\* the loop from the top of an iteration to its next await: a batch of new
\* lines to send, the final message, or the sleep
ws_turn(c, sent_count) ==
    LET job == jobs[c.job_id]
        current_lines == job.progress
    IN  IF Len(current_lines) > sent_count
        THEN [c EXCEPT !.pc = "send", !.sent_count = sent_count,
                       !.batch = SubSeq(current_lines, sent_count + 1, Len(current_lines))]
        ELSE IF job.status \in {"done", "failed"}
        THEN [c EXCEPT !.pc = "final", !.sent_count = sent_count, !.batch = <<>>]
        ELSE [c EXCEPT !.pc = "sleep", !.sent_count = sent_count, !.batch = <<>>]

\* the check of the status after a batch
ws_after_batch(c, sent_count) ==
    IF jobs[c.job_id].status \in {"done", "failed"}
    THEN [c EXCEPT !.pc = "final", !.sent_count = sent_count, !.batch = <<>>]
    ELSE [c EXCEPT !.pc = "sleep", !.sent_count = sent_count, !.batch = <<>>]

SocketsQuiet == UNCHANGED <<jobs, semaphore, procs, resp>> /\ JobsQuiet

\* a client connects: close(4004) for an unknown job, else accept and the
\* first turn of the loop
ws_progress(job_id) ==
    /\ Len(clients) < MaxSockets
    /\ job_id \in DOMAIN jobs
    /\ clients' = Append(clients,
                         ws_turn([job_id |-> job_id, pc |-> "loop", sent_count |-> 0,
                                  batch |-> <<>>, sent |-> 0, received |-> <<>>], 0))
    /\ SocketsQuiet

ws_unknown_job(job_id) ==
    /\ job_id \notin DOMAIN jobs
    /\ resp' = [NoResp EXCEPT !.op = "ws", !.sid = job_id, !.status = 4004]
    /\ UNCHANGED <<jobs, clients, semaphore, procs>>
    /\ JobsQuiet

\* await websocket.send_json(...) of the next line of the batch returns; after
\* the last one the loop goes on to its next await
ws_send(i) ==
    LET c == clients[i]
        line == c.batch[c.sent + 1]
        got == [c EXCEPT !.received = Append(@, LineMessage(line, jobs[c.job_id].status)),
                         !.sent = @ + 1]
    IN  /\ c.pc = "send"
        /\ clients' = [clients EXCEPT ![i] =
               IF got.sent < Len(c.batch) THEN got
               ELSE ws_after_batch([got EXCEPT !.sent = 0],
                                   sent_after_batch(c.sent_count, c.batch,
                                                    jobs[c.job_id].progress))]
        /\ SocketsQuiet

\* the final message is sent and the socket closed
ws_final(i) ==
    /\ clients[i].pc = "final"
    /\ clients' = [clients EXCEPT
           ![i].received = Append(@, FinalMessage(jobs[clients[i].job_id].status)),
           ![i].pc = "closed"]
    /\ SocketsQuiet

\* asyncio.sleep(0.5) returns: the next turn of the loop
ws_wake(i) ==
    /\ clients[i].pc = "sleep"
    /\ clients' = [clients EXCEPT ![i] = ws_turn(@, @.sent_count)]
    /\ SocketsQuiet

InitJobs ==
    /\ Idle
    /\ solve_tasks = <<>>
    /\ spots = SpotsFlop
    /\ sessions = <<>>
    /\ db_sessions = <<>>
    /\ db_stats = <<>>
    /\ perm_order = 1
    /\ resp = NoResp
    /\ pf = NoCall

NextJobs ==
    \/ solve
    \/ \E job_id \in DOMAIN jobs :
          \/ run_solver_enter(job_id)
          \/ run_solver_spawn(job_id)
          \/ run_solver_read(job_id)
          \/ run_solver_read_raises(job_id)
          \/ run_solver_finish(job_id)
    \/ \E p \in DOMAIN procs : proc_exit(p)
    \/ \E job_id \in 1..(MaxJobs + 1) : get_result(job_id)

SpecJobs == InitJobs /\ [][NextJobs]_vars

\* the jobs and the clients that follow their progress
InitProgress == InitJobs

NextProgress ==
    \/ NextJobs
    \/ \E job_id \in 1..(MaxJobs + 1) : ws_progress(job_id) \/ ws_unknown_job(job_id)
    \/ \E i \in DOMAIN clients : ws_send(i) \/ ws_final(i) \/ ws_wake(i)

SpecProgress == InitProgress /\ [][NextProgress]_vars

\* ------------------------------------------------------------ spot solve tasks
\* _solve_hand_spot and _solve_one_spot, one step per await
SpotsQuiet == UNCHANGED <<jobs, clients, sessions, db_sessions, db_stats, perm_order, resp, pf>>

\* the select returns; the task ends unless the row is pending
solve_spot_select(t) ==
    LET task == solve_tasks[t]
        seen == spots[task.spot_id].solve_status
    IN  /\ task.pc = "created"
        /\ solve_tasks' = [solve_tasks EXCEPT
               ![t].seen = seen,
               ![t].pc = IF seen # "pending" THEN "returned" ELSE "commit"]
        /\ UNCHANGED <<spots, semaphore, procs>>
        /\ SpotsQuiet

\* spot.solve_status = "solving" is committed
solve_spot_commit(t) ==
    /\ solve_tasks[t].pc = "commit"
    /\ spots' = [spots EXCEPT ![solve_tasks[t].spot_id].solve_status = "solving"]
    /\ solve_tasks' = [solve_tasks EXCEPT ![t].pc = "queued"]
    /\ UNCHANGED <<semaphore, procs>>
    /\ SpotsQuiet

\* run_solver_path takes the semaphore
run_solver_path_enter(t) ==
    /\ solve_tasks[t].pc = "queued"
    /\ semaphore > 0
    /\ semaphore' = semaphore - 1
    /\ solve_tasks' = [solve_tasks EXCEPT ![t].pc = "spawn"]
    /\ UNCHANGED <<spots, procs>>
    /\ SpotsQuiet

\* create_subprocess_exec returns a process or raises
run_solver_path_spawn(t) ==
    /\ solve_tasks[t].pc = "spawn"
    /\ \/ /\ procs' = Append(procs, Spawned)
          /\ solve_tasks' = [solve_tasks EXCEPT ![t].pc = "wait", ![t].proc = Len(procs) + 1]
          /\ UNCHANGED semaphore
       \/ /\ solve_tasks' = [solve_tasks EXCEPT ![t].pc = "store", ![t].solved_ok = FALSE]
          /\ semaphore' = semaphore + 1
          /\ UNCHANGED procs
    /\ UNCHANGED spots
    /\ SpotsQuiet

\* Path(result_file).exists(): a subprocess of this spot wrote the result file
ResultFileOf(spot_id) ==
    \E u \in DOMAIN solve_tasks :
       /\ solve_tasks[u].spot_id = spot_id
       /\ solve_tasks[u].proc # 0
       /\ procs[solve_tasks[u].proc].result

\* proc.wait() returns: the semaphore is released, a return code other than 0
\* raises, else the result file is looked for
run_solver_path_exit(t) ==
    LET task == solve_tasks[t]
    IN  /\ task.pc = "wait"
        /\ ~procs[task.proc].alive
        /\ semaphore' = semaphore + 1
        /\ solve_tasks' = [solve_tasks EXCEPT
               ![t].pc = "store",
               ![t].solved_ok = procs[task.proc].returncode = 0 /\ ResultFileOf(task.spot_id)]
        /\ UNCHANGED <<spots, procs>>
        /\ SpotsQuiet

\* the second session: the outcome is written to the row
solve_spot_store(t) ==
    LET task == solve_tasks[t]
    IN  /\ task.pc = "store"
        /\ spots' = [spots EXCEPT
               ![task.spot_id].solve_status = IF task.solved_ok THEN "ready" ELSE "failed",
               ![task.spot_id].has_result = task.solved_ok,
               ![task.spot_id].tree = IF task.solved_ok
                                      THEN HandTree(TRUE, "dumped", "dealcards") ELSE <<>>]
        /\ solve_tasks' = [solve_tasks EXCEPT ![t].pc = "stored"]
        /\ UNCHANGED <<semaphore, procs>>
        /\ SpotsQuiet

SolvedHand == HandRow("BTN", AhKh, FlopRaw, Srp, <<>>, <<>>, <<>>)

InitSolves ==
    /\ spots \in {<<>>, <<HandSpot("pending", FALSE, <<>>)>>}
    /\ Idle
    /\ solve_tasks = <<>>
    /\ sessions = <<>>
    /\ db_sessions = <<>>
    /\ db_stats = <<>>
    /\ perm_order = 1
    /\ resp = NoResp
    /\ pf = NoCall

NextSolves ==
    \/ get_hand_gto_analysis(SolvedHand)
    \/ \E t \in DOMAIN solve_tasks :
          \/ solve_spot_select(t)
          \/ solve_spot_commit(t)
          \/ run_solver_path_enter(t)
          \/ run_solver_path_spawn(t)
          \/ run_solver_path_exit(t)
          \/ solve_spot_store(t)
    \/ \E p \in DOMAIN procs : proc_exit(p)

SpecSolves == InitSolves /\ [][NextSolves]_vars

\* _solve_pending_spots at startup: one task for every pending spot
RECURSIVE TasksFor(_, _)
TasksFor(table, i) ==
    IF i > Len(table) THEN <<>>
    ELSE (IF table[i].solve_status = "pending" THEN <<SolveTask(i)>> ELSE <<>>)
         \o TasksFor(table, i + 1)

solve_pending_spots ==
    /\ solve_tasks = <<>>
    /\ Len(TasksFor(spots, 1)) <= MaxTasks
    /\ solve_tasks' = TasksFor(spots, 1)
    /\ UNCHANGED <<spots, semaphore, procs>>
    /\ SpotsQuiet

\* the solve jobs and the startup solves of the trainer spots share the semaphore
InitSemaphore == InitJobs

NextSemaphore ==
    \/ solve_pending_spots
    \/ \E t \in DOMAIN solve_tasks :
          \/ solve_spot_select(t)
          \/ solve_spot_commit(t)
          \/ run_solver_path_enter(t)
          \/ run_solver_path_spawn(t)
          \/ run_solver_path_exit(t)
          \/ solve_spot_store(t)
    \/ solve
    \/ \E job_id \in DOMAIN jobs :
          \/ run_solver_enter(job_id)
          \/ run_solver_spawn(job_id)
          \/ run_solver_read(job_id)
          \/ run_solver_read_raises(job_id)
          \/ run_solver_finish(job_id)
    \/ \E p \in DOMAIN procs : proc_exit(p)

SpecSemaphore == InitSemaphore /\ [][NextSemaphore]_vars

\* ------------------------------------------------------------ startup
\* the keys of TRAINER_SPOTS
LibraryKeys == <<"s1", "s2">>

\* a row of the library as a run leaves it
LeftRow(key, status) ==
    [spot_key |-> key, position_matchup |-> "BTN_vs_BB",
     tree |-> IF status = "ready" THEN TreeFlop ELSE <<>>,
     range_ip |-> AKs, range_oop |-> AQs, board |-> BoardFlop,
     pot |-> 10, effective_stack |-> 100, solve_status |-> status,
     has_result |-> status = "ready"]

SpotStatuses == {"pending", "solving", "failed", "ready"}

\* the table before the first start, and the tables earlier runs left behind
LeftTables ==
    {<<>>} \cup {<<LeftRow("s1", a)>> : a \in SpotStatuses}
           \cup {<<LeftRow("s1", a), LeftRow("s2", b)>> : a, b \in SpotStatuses}

\* a mutation: rows left in "solving" are not touched
reset_stuck_never(status) == status

\* update(TrainerSpot).where(solve_status == "solving").values(solve_status="pending")
reset_stuck(status) == IF status = "solving" THEN "pending" ELSE status

\* the table after seed_spots; stale are the rows whose version tag differs
seed_spots(table, stale) ==
    LET reseeded == [i \in DOMAIN table |->
                        IF table[i].solve_status = "failed" \/ i \in stale
                        THEN [table[i] EXCEPT !.solve_status = "pending",
                                              !.has_result = FALSE, !.tree = <<>>]
                        ELSE table[i]]
        missing == SelectSeq(LibraryKeys,
                             LAMBDA key : \A i \in DOMAIN table : table[i].spot_key # key)
    IN  reseeded \o [k \in DOMAIN missing |-> LeftRow(missing[k], "pending")]

Started == pf.fn = "lifespan"

\* the startup of the process up to create_task(_solve_pending_spots); pf keeps
\* the statuses found and the rows that are pending once startup is through
lifespan ==
    /\ ~Started
    /\ \E stale \in SUBSET DOMAIN spots :
          LET seeded == seed_spots(spots, stale)
              table == [i \in DOMAIN seeded |->
                          [seeded[i] EXCEPT !.solve_status = reset_stuck(@)]]
          IN  /\ spots' = table
              /\ pf' = [fn |-> "lifespan", node |-> OtherNode(""),
                        out |-> [before |-> [i \in DOMAIN spots |-> spots[i].solve_status],
                                 pending |-> {i \in DOMAIN table :
                                                 table[i].solve_status = "pending"}]]
    /\ UNCHANGED <<jobs, clients, semaphore, procs, solve_tasks, sessions, db_sessions, db_stats, perm_order, resp>>

InitStartup ==
    /\ spots \in LeftTables
    /\ Idle
    /\ solve_tasks = <<>>
    /\ sessions = <<>>
    /\ db_sessions = <<>>
    /\ db_stats = <<>>
    /\ perm_order = 1
    /\ resp = NoResp
    /\ pf = NoCall

\* one run of the process: startup and the startup solves
NextStartup ==
    \/ lifespan
    \/ Started /\ solve_pending_spots
    \/ \E t \in DOMAIN solve_tasks :
          \/ solve_spot_select(t)
          \/ solve_spot_commit(t)
          \/ run_solver_path_enter(t)
          \/ run_solver_path_spawn(t)
          \/ run_solver_path_exit(t)
          \/ solve_spot_store(t)
    \/ \E p \in DOMAIN procs : proc_exit(p)

\* the event loop runs every task that can go on; asyncio.Semaphore wakes its
\* waiters in the order they came, so a waiter is not passed over for ever;
\* every subprocess exits
FairStartup ==
    /\ WF_vars(lifespan)
    /\ WF_vars(Started /\ solve_pending_spots)
    /\ \A t \in 1..MaxTasks :
          /\ WF_vars(t \in DOMAIN solve_tasks
                        /\ (solve_spot_select(t) \/ solve_spot_commit(t)
                              \/ run_solver_path_spawn(t) \/ run_solver_path_exit(t)
                              \/ solve_spot_store(t)))
          /\ SF_vars(t \in DOMAIN solve_tasks /\ run_solver_path_enter(t))
    /\ \A p \in 1..MaxTasks : WF_vars(p \in DOMAIN procs /\ proc_exit(p))

SpecStartup == InitStartup /\ [][NextStartup]_vars /\ FairStartup

\* ------------------------------------------------------------ navigation alone
MaxPath == 3            \* steps of an input path

StepInputs == {CHECK, Bet2, CALL, Ah, Td, c3}
PathInputs == UNION {[1..n -> StepInputs] : n \in 0..MaxPath}
TreeInputs == HandTrees \cup {Tree1}

InitNav ==
    /\ spots = SpotsFlop
    /\ Idle
    /\ solve_tasks = <<>>
    /\ sessions = <<>>
    /\ db_sessions = <<>>
    /\ db_stats = <<>>
    /\ perm_order = 1
    /\ resp = NoResp
    /\ pf \in {InputCall([root |-> t, node_path |-> p]) : t \in TreeInputs, p \in PathInputs}

call_navigate_tree ==
    Called("navigate_tree", NoStr, NoStr, Zero, navigate_tree(pf.node.root, pf.node.node_path))

call_gto_navigate_tree ==
    Called("gto_navigate_tree", NoStr, NoStr, Zero,
           gto_navigate_tree(pf.node.root, pf.node.node_path))

NextNav == call_navigate_tree \/ call_gto_navigate_tree

SpecNav == InitNav /\ [][NextNav]_vars

\* ------------------------------------------------------------ auto-advance, step by step
MaxStart == 2           \* keys of the path auto-advance is entered with

AdvanceTrees == {Tree1, TreeBare, TreeRagged}
AdvanceSteps == {CHECK, BET, CALL, Td}
AdvancePaths == UNION {[1..n -> AdvanceSteps] : n \in 0..MaxStart}

\* what _sample_villain_action(node, None) can return at each node of a tree,
\* over random.random() and random.choice
SamplerDraws(tree) ==
    [k \in DOMAIN tree |->
        {sample_villain_action(tree[k], NoStr, r, pick, 1) :
            r \in RDraws, pick \in ChoiceRange(tree[k])}]

\* a tree, a path, hero's seat and hero's combo are drawn, and with the tree
\* the sampler's draws; the call has not begun
InitAdvance ==
    /\ spots = SpotsFlop
    /\ Idle
    /\ solve_tasks = <<>>
    /\ sessions = <<>>
    /\ db_sessions = <<>>
    /\ db_stats = <<>>
    /\ perm_order = 1
    /\ resp = NoResp
    /\ pf \in {InputCall([root |-> t, node_path |-> p, hero_position |-> h,
                          hero_combo |-> c, draws |-> SamplerDraws(t)]) :
                    t \in AdvanceTrees, p \in AdvancePaths, h \in {"ip", "oop"},
                    c \in {AhQh, AhKh}}

\* the loop's variables become pf.out; pf.fn tells where the call is
Loop(fn, out) ==
    /\ pf' = [pf EXCEPT !.fn = fn, !.out = out]
    /\ UNCHANGED <<jobs, clients, semaphore, procs, solve_tasks, spots, sessions, db_sessions, db_stats, perm_order, resp>>

InLoop == pf.fn = "advance_to_hero"

\* next_node = _navigate_tree(tree, node_path)
advance_enter ==
    /\ pf.fn = "input"
    /\ Loop("advance_to_hero",
            Outcome(navigate_tree(pf.node.root, pf.node.node_path), pf.node.node_path,
                    <<>>, NoStr, FALSE))

\* pf after one iteration at chance node n, over random.choice
ChanceSteps(n) ==
    IF n.deal_cards = <<>>
    THEN {[pf EXCEPT !.fn = "returned", !.out.next_node = NoNode]}
    ELSE {[pf EXCEPT !.out.next_node = n.deal_cards[i][2],
                     !.out.node_path = Append(@, n.deal_cards[i][1]),
                     !.out.new_board_cards = Append(@, n.deal_cards[i][1])]
          : i \in DOMAIN n.deal_cards}

\* one iteration at a chance node
advance_chance ==
    /\ InLoop
    /\ pf.out.next_node # NoNode
    /\ pf.node.root[pf.out.next_node].node_type = "chance_node"
    /\ pf' \in ChanceSteps(pf.node.root[pf.out.next_node])
    /\ UNCHANGED <<jobs, clients, semaphore, procs, solve_tasks, spots, sessions, db_sessions, db_stats, perm_order, resp>>

\* pf after one iteration at the opponent's node n, over the sampler's draws
VillainSteps(n) ==
    IF get_action_entries(n) = <<>>
    THEN {[pf EXCEPT !.fn = "returned", !.out.next_node = NoNode]}
    ELSE {LET path == Append(pf.out.node_path, va)
          IN  IF va = IndexError
              THEN [pf EXCEPT !.fn = "raised", !.out.raised = TRUE]
              ELSE [pf EXCEPT !.out.next_node = navigate_tree(pf.node.root, path),
                              !.out.node_path = path,
                              !.out.last_villain_action = va]
          : va \in pf.node.draws[pf.out.next_node]}

\* one iteration at an action node of the opponent
advance_villain ==
    /\ InLoop
    /\ pf.out.next_node # NoNode
    /\ pf.node.root[pf.out.next_node].node_type = "action_node"
    /\ is_villain_node(pf.node.root[pf.out.next_node], pf.node.hero_position,
                       pf.node.hero_combo)
    /\ pf' \in VillainSteps(pf.node.root[pf.out.next_node])
    /\ UNCHANGED <<jobs, clients, semaphore, procs, solve_tasks, spots, sessions, db_sessions, db_stats, perm_order, resp>>

\* the loop ends: next_node is None, hero's action node, or an unknown node type
advance_return ==
    /\ InLoop
    /\ IF pf.out.next_node = NoNode THEN Loop("returned", pf.out)
       ELSE LET n == pf.node.root[pf.out.next_node]
            IN  IF n.node_type = "action_node"
                THEN /\ ~is_villain_node(n, pf.node.hero_position, pf.node.hero_combo)
                     /\ Loop("returned", pf.out)
                ELSE /\ n.node_type # "chance_node"
                     /\ Loop("returned", [pf.out EXCEPT !.next_node = NoNode])

NextAdvance == advance_enter \/ advance_chance \/ advance_villain \/ advance_return

\* the call runs on one thread without awaiting: a statement that can run, runs
SpecAdvance == InitAdvance /\ [][NextAdvance]_vars /\ WF_vars(NextAdvance)

\* ------------------------------------------------------------ lookups on any table
\* tables whose vectors differ in length
RaggedTables(n) ==
    {<< <<AsKs, VectorOf(1, a)>>, <<AhKh, VectorOf(2, b)>> >> :
        a \in 1..(n + 1), b \in 0..(n + 1)} \ TableInputs(n)
RaggedNodeInputs ==
    UNION {{ActionNode(0, ch, st) : st \in RaggedTables(Len(ch))} : ch \in ChildrenInputs}

InitRagged ==
    /\ spots = SpotsFlop
    /\ Idle
    /\ solve_tasks = <<>>
    /\ sessions = <<>>
    /\ db_sessions = <<>>
    /\ db_stats = <<>>
    /\ perm_order \in DOMAIN PermOrders
    /\ resp = NoResp
    /\ pf \in {InputCall(node) : node \in ComboNodeInputs \cup RaggedNodeInputs}

NextRagged == NextEntries \/ NextCombo

SpecRagged == InitRagged /\ [][NextRagged]_vars

\* ------------------------------------------------------------ range expansion calls
MaxTokens == 2          \* tokens of a range string
Join(tokens) ==
    Concat([i \in 1..Len(tokens) |-> IF i = 1 THEN tokens[i] ELSE <<",">> \o tokens[i]])

\* tokens as the spot library writes them, and a few it does not
TokenPool ==
    {<<"A", "A">>, <<"K", "K">>, <<"A", "K", "s">>, <<"A", "K", "o">>,
     <<"A", "A", ":", "0", ".", "5">>, <<"A", "K", "s", ":", "0", ".", "3", "3">>,
     <<" ", "A", "K", "o", ":", "0", ".", "5", " ">>, <<"A", "K">>, <<"A", "K", "x">>,
     <<"A">>}
RangeInputs ==
    {<<>>} \cup UNION {{Join(ts) : ts \in [1..n -> TokenPool]} : n \in 1..MaxTokens}
BoardInputs ==
    {{}, {<<"A", "s">>}, {<<"A", "c">>, <<"Q", "d">>, <<"K", "s">>},
     {<<"A", "c">>, <<"A", "d">>, <<"A", "h">>, <<"K", "c">>, <<"K", "d">>}}

InitRange ==
    /\ spots = SpotsFlop
    /\ Idle
    /\ solve_tasks = <<>>
    /\ sessions = <<>>
    /\ db_sessions = <<>>
    /\ db_stats = <<>>
    /\ perm_order = 1
    /\ resp = NoResp
    /\ pf \in {InputCall([range_str |-> r, board_cards |-> b]) :
                  r \in RangeInputs, b \in BoardInputs}

call_parse_range_to_combos ==
    Called("parse_range_to_combos", NoStr, NoStr, Zero,
           parse_range_to_combos(pf.node.range_str, pf.node.board_cards))

NextRange == call_parse_range_to_combos

SpecRange == InitRange /\ [][NextRange]_vars

\* ============================================================ claims
HoleCards(combo) == {SubSeq(combo, 1, 2), SubSeq(combo, 3, 4)}
Served == resp.op \in {"start", "action"} /\ resp.status = 200
TreeOf(sid) == spots[sessions[sid].spot].tree

\* C1: no card that auto-advance drew at a chance node and appended to a
\* session's path (during start or submitAction) is one of hero's two hole
\* cards.  The code draws from all of deal_cards, so this fails.
C1_DealtCardsAvoidHoleCards ==
    \A sid \in DOMAIN sessions :
        \A i \in DOMAIN sessions[sid].extra_board_cards :
            sessions[sid].extra_board_cards[i] \notin HoleCards(sessions[sid].hero_combo)

\* C2: after start and after every successful submitAction, navigating from
\* the root along the stored nodePath yields the node auto-advance reached
\* live, and absent when the live result was absent.  Fails where the loop
\* reports absent at a node that exists (a chance node without deal_cards,
\* an opponent node without entries, a node of another type).
C2_ReplayYieldsLiveNode ==
    Served => navigate_tree(TreeOf(resp.sid), sessions[resp.sid].node_path) = resp.next_node

\* C3: every completion of a persisted session, whatever its score, updates
\* the aggregate of (player, spot, heroRole): created with count 1 and
\* avg = best = worst = score, later count + 1, the running mean, max and min.
\* Fails for a score of 0, which the code leaves out of the aggregate.
C3_CompleteUpdatesAggregate ==
    [][(resp'.op = "complete" /\ resp'.sid \in DOMAIN db_sessions) =>
          LET row == db_sessions[resp'.sid]
              key == StatKey(row, spots[row.spot_id])
              score == resp'.gto_score
          IN  /\ key \in DOMAIN db_stats'
              /\ IF key \notin DOMAIN db_stats
                 THEN db_stats'[key] =
                          [sessions_count |-> 1, avg_gto_score |-> score,
                           best_score |-> score, worst_score |-> score]
                 ELSE LET old == db_stats[key]
                          new == db_stats'[key]
                      IN  /\ new.sessions_count = old.sessions_count + 1
                          /\ new.avg_gto_score.n * (old.avg_gto_score.d * score.d
                                                    * (old.sessions_count + 1))
                               = new.avg_gto_score.d
                                   * (old.avg_gto_score.n * old.sessions_count * score.d
                                      + score.n * old.avg_gto_score.d)
                          /\ new.best_score = RMax(old.best_score, score)
                          /\ new.worst_score = RMin(old.worst_score, score)]_vars

\* C4: completing a session that is already completed is rejected or changes
\* nothing: the aggregates and the persisted score stay as the first call
\* left them.  Fails: the second call counts the session again.
C4_RecompleteIsNoOp ==
    [][(/\ resp'.op = "complete"
        /\ resp'.sid \in DOMAIN db_sessions
        /\ db_sessions[resp'.sid].completed) =>
          /\ db_stats' = db_stats
          /\ db_sessions'[resp'.sid].gto_score = db_sessions[resp'.sid].gto_score]_vars

\* C5: submitAction on a session id that was never started, or whose session
\* is already completed, answers not found, records no decision and changes
\* neither an in-memory session nor a persisted decision log.
C5_SubmitOnMissingSession ==
    [][(/\ resp'.op = "action"
        /\ \/ resp'.sid \notin DOMAIN db_sessions
           \/ db_sessions[resp'.sid].completed) =>
          /\ resp'.status = 404
          /\ sessions' = sessions
          /\ db_sessions' = db_sessions]_vars

C5_Witness ==
    /\ resp.op = "action"
    /\ resp.status = 404
    /\ resp.sid \in DOMAIN db_sessions
    /\ db_sessions[resp.sid].completed
    /\ db_sessions[resp.sid].decisions_json # <<>>

\* C6: complete with a session id that matches no session, in memory or
\* persisted, surfaces not found instead of a score.  Fails: the code answers
\* 200 with a score of 0.
C6_CompleteUnknownIsNotFound ==
    (/\ resp.op = "complete"
     /\ resp.sid \notin DOMAIN db_sessions
     /\ resp.sid \notin DOMAIN sessions) => resp.status = 404

\* the auto-advance of the last start ran and stopped at an absent node
StartEndedAbsent ==
    resp.op = "start" /\ resp.hero_combo # NoStr /\ resp.next_node = NoNode

\* C7 as stated: when the auto-advance run by start stops at an absent node,
\* start still persists a new session and returns a state with the terminal
\* flag set and the history of what was sampled and dealt.
C7_StartAtAbsentReturnsTerminal ==
    StartEndedAbsent =>
        /\ resp.status = 200
        /\ resp.is_terminal
        /\ resp.sid \in DOMAIN db_sessions
        /\ resp.action_history = HistoryOf(resp.node_path)

\* C7 amended: when the auto-advance run by start stops at an absent node,
\* start fails with status 500 and writes nothing: no session row, no
\* in-memory session, no aggregate.
C7_StartAtAbsentFails ==
    [][(resp'.op = "start" /\ resp'.hero_combo # NoStr /\ resp'.next_node = NoNode) =>
          /\ resp'.status = 500
          /\ sessions' = sessions
          /\ db_sessions' = db_sessions
          /\ db_stats' = db_stats]_vars

C7_Witness ==
    /\ StartEndedAbsent
    /\ resp.status = 500
    /\ resp.node_path = <<FOLD>>
    /\ db_sessions = <<>>

\* the decisions a complete of session sid scores
ScoredDecisions(sid) ==
    IF sid \in DOMAIN sessions /\ sessions[sid].decisions # <<>>
    THEN sessions[sid].decisions
    ELSE IF sid \in DOMAIN db_sessions THEN db_sessions[sid].decisions_json ELSE <<>>

\* score is the ten-thousandth nearest to total / count
IsMeanTo4dp(score, total, count) ==
    /\ 10000 % score.d = 0
    /\ 2 * 10000 * Abs(score.n * total.d * count - total.n * score.d)
          <= score.d * total.d * count

\* C8: complete returns the arithmetic mean, rounded to 4 decimal places, of
\* the gtoFrequency of all decisions of the session, whatever their pot
\* weights and streets, and 0 for a session without decisions.
C8_ScoreIsPlainMean ==
    [][resp'.op = "complete" =>
          LET ds == ScoredDecisions(resp'.sid)
          IN  /\ resp'.decisions = ds
              /\ IF ds = <<>> THEN resp'.gto_score = Zero
                 ELSE IsMeanTo4dp(resp'.gto_score, RSum(GtoFreqs(ds)), Len(ds))]_vars

C8_Witness ==
    /\ resp.op = "complete"
    /\ Len(resp.decisions) = 3
    /\ GtoFreqs(resp.decisions) = <<F(8000), F(4000), F(10000)>>
    /\ resp.decisions[1].pot_weight # resp.decisions[2].pot_weight
    /\ resp.gto_score = F(7333)

IsCardToken(step) ==
    \E r \in SeqRange(RANKS), su \in SeqRange(SUITS) : step = <<r, su>>
DealtCount(node_path) == Cardinality({i \in DOMAIN node_path : IsCardToken(node_path[i])})
StreetOfCount(k) == IF k = 0 THEN "flop" ELSE IF k = 1 THEN "turn" ELSE "river"
StreetRank(street) == IF street = "flop" THEN 0 ELSE IF street = "turn" THEN 1 ELSE 2
StreetsFollowPath(decisions) ==
    /\ \A i \in DOMAIN decisions :
          decisions[i].street = StreetOfCount(DealtCount(decisions[i].node_path))
    /\ \A i, j \in DOMAIN decisions :
          i < j => StreetRank(decisions[i].street) <= StreetRank(decisions[j].street)

\* C9: the street of every returned state and of every decision record is a
\* function of the number of dealt-card tokens in the path at that moment
\* (0 flop, 1 turn, 2 or more river), so the streets of one session's
\* decisions never move backwards.
C9_StreetFollowsDealtCards ==
    /\ Served => resp.street = StreetOfCount(DealtCount(resp.node_path))
    /\ \A sid \in DOMAIN sessions : StreetsFollowPath(sessions[sid].decisions)
    /\ \A sid \in DOMAIN db_sessions : StreetsFollowPath(db_sessions[sid].decisions_json)

C9_Witness ==
    \E sid \in DOMAIN sessions :
        /\ Len(sessions[sid].decisions) = 3
        /\ sessions[sid].decisions[1].street = "flop"
        /\ sessions[sid].decisions[2].street = "turn"
        /\ sessions[sid].decisions[3].street = "river"
        /\ Served /\ resp.street = "river"

EntriesCalled == pf.fn \in {"get_action_entries", "gto_get_action_entries"}
VectorLengths(node) == {Len(node.strategy[k][2]) : k \in DOMAIN node.strategy}

\* C10 as stated: for every action node with a non-empty strategy table the
\* entry list is as long as the frequency vector of every combo of the table.
C10_EntriesMatchEveryVector ==
    (EntriesCalled /\ pf.node.strategy # <<>>) =>
        \A len \in VectorLengths(pf.node) : Len(pf.out) = len

\* C10 amended: for every action node with a non-empty strategy table whose
\* vectors all have one length, the number of children or that number plus
\* one, the entry list has that length, and every entry index is a valid
\* index into every vector.
C10_EntriesMatchWellFormedVectors ==
    (/\ EntriesCalled
     /\ pf.node.strategy # <<>>
     /\ \E len \in {Len(pf.node.childrens), Len(pf.node.childrens) + 1} :
            VectorLengths(pf.node) = {len}) =>
        /\ \A len \in VectorLengths(pf.node) : Len(pf.out) = len
        /\ \A i \in DOMAIN pf.out :
              \A len \in VectorLengths(pf.node) :
                  0 <= pf.out[i].index /\ pf.out[i].index < len

C10_Witness ==
    /\ pf.fn = "get_action_entries"
    /\ Len(pf.node.strategy) = 2
    /\ VectorLengths(pf.node) = {Len(pf.node.childrens) + 1}
    /\ Len(pf.node.childrens) = 2
    /\ Len(pf.out) = 3
    /\ pf.out[1].name = FOLD

\* ------------------------------------------------------------ C11 .. C15
\* the keys a suit permutation makes of a combo
SuitPermuted(combo) ==
    {<<combo[1], SUITS[PermsLex[p][SuitIndex(combo[2])]],
       combo[3], SUITS[PermsLex[p][SuitIndex(combo[4])]]>> : p \in DOMAIN PermsLex}
SwapRanks(combo) == <<combo[3], combo[4], combo[1], combo[2]>>
StoredSuitIso(strategy, combo) == SeqRange(Keys(strategy)) \cap SuitPermuted(combo)
StoredIso(strategy, combo) ==
    SeqRange(Keys(strategy)) \cap (SuitPermuted(combo) \cup SuitPermuted(SwapRanks(combo)))
FreqCalled == pf.fn \in {"gto_freq_for_combo", "hands_gto_freq_for_combo"}
EntryNames(node) ==
    {get_action_entries(node)[i].name : i \in DOMAIN get_action_entries(node)}
IndexOfAction(node, action) ==
    get_action_entries(node)[EntryNamed(get_action_entries(node), action)].index
MeanAt(strategy, idx) ==
    RDivInt(RSum([k \in 1..Len(strategy) |-> strategy[k][2][idx + 1]]), Len(strategy))

\* C11: when the table stores the combo's literal key, or a key that a suit
\* permutation makes of the combo in either rank ordering, the frequency
\* returned by the trainer's and by hand analysis's lookup is the entry of such
\* a stored key's vector at the action's index, not the population average.
C11_IsoKeyBeatsAverage ==
    (/\ FreqCalled
     /\ pf.node.strategy # <<>>
     /\ pf.action \in EntryNames(pf.node)
     /\ StoredIso(pf.node.strategy, pf.combo) # {})
    => LET idx == IndexOfAction(pf.node, pf.action)
           ks == IF HasKey(pf.node.strategy, pf.combo) THEN {pf.combo}
                 ELSE StoredIso(pf.node.strategy, pf.combo)
       IN  \E k \in ks : pf.out = DictGet(pf.node.strategy, k)[idx + 1]

\* C12: for an action of the entry list the lookup returns a number: 1/entryCount
\* when the node has no table, and the mean over all vectors of the value at the
\* action's index when no stored key is the combo or isomorphic to it.
C12_UniformOrPopulationMean ==
    (FreqCalled /\ pf.action \in EntryNames(pf.node))
    => /\ DOMAIN pf.out = {"n", "d"} /\ pf.out.d > 0
       /\ pf.node.strategy = <<>>
            => pf.out = Rat(1, Len(get_action_entries(pf.node)))
       /\ (pf.node.strategy # <<>> /\ StoredIso(pf.node.strategy, pf.combo) = {})
            => pf.out = MeanAt(pf.node.strategy, IndexOfAction(pf.node, pf.action))

C12_Witness ==
    /\ pf.fn = "hands_gto_freq_for_combo"
    /\ pf.combo = TcTd
    /\ pf.action = CHECK
    /\ Keys(pf.node.strategy) = <<AsKs, QdJd>>
    /\ Len(pf.node.strategy[1][2]) = 3
    /\ pf.out = Rat(3, 8)

\* the entry the inverse-CDF rule names: the first whose running sum reaches r,
\* else the last
FirstReaching(entries, freqs, r) ==
    LET hits == {i \in DOMAIN entries :
                    RLeq(r, RSum(SubSeq(freqs, 1, i)))}
    IN  IF hits = {} THEN entries[Len(entries)].name
        ELSE entries[CHOOSE i \in hits : \A j \in hits : i <= j].name
AverageVector(strategy, len) == [i \in 1..len |-> MeanAt(strategy, i - 1)]

\* C13: a combo whose literal key is stored resolves to that key wherever a combo
\* is resolved (frequency lookup, opponent sampling, the hero_iso_combo of hand
\* analysis), also when isomorphic keys of it are stored.
C13_StoredKeyResolvesToItself ==
    (pf.fn # "input" /\ pf.combo # NoStr /\ HasKey(pf.node.strategy, pf.combo))
    => LET literal == DictGet(pf.node.strategy, pf.combo)
           entries == get_action_entries(pf.node)
       IN  /\ (FreqCalled /\ pf.action \in EntryNames(pf.node))
                => pf.out = literal[IndexOfAction(pf.node, pf.action) + 1]
           /\ (pf.fn = "sample_villain_action" /\ entries # <<>>)
                => pf.out = FirstReaching(entries, literal, pf.r)
           /\ pf.fn = "gto_find_iso_combo" => pf.out = pf.combo

\* C14: the key a combo resolves to does not depend on the order in which the
\* suit permutations are enumerated: every order gives the key this run gave.
C14_ResolutionIgnoresPermutationOrder ==
    /\ pf.fn = "find_iso_combo"
         => \A o \in DOMAIN PermOrders :
                find_iso_combo(pf.node.strategy, pf.combo, o) = pf.out
    /\ pf.fn = "gto_find_iso_combo"
         => \A o \in DOMAIN PermOrders :
                gto_find_iso_combo(pf.node.strategy, pf.combo, o) = pf.out

\* C15: at a node with a table and a non-empty entry list the sampler returns a
\* label of the entry list: the first entry whose cumulative frequency is at
\* least r, else the last, over the known combo's vector (its own or a
\* suit-isomorphic one) and otherwise over the population-average vector.
C15_SamplerIsInverseCdf ==
    (/\ pf.fn = "sample_villain_action"
     /\ pf.node.strategy # <<>>
     /\ get_action_entries(pf.node) # <<>>)
    => LET entries == get_action_entries(pf.node)
           strategy == pf.node.strategy
           known == IF pf.combo = NoStr THEN {}
                    ELSE IF HasKey(strategy, pf.combo) THEN {pf.combo}
                    ELSE StoredSuitIso(strategy, pf.combo)
           vectors == IF known # {} THEN {DictGet(strategy, k) : k \in known}
                      ELSE {AverageVector(strategy, Len(entries))}
       IN  /\ pf.out \in EntryNames(pf.node)
           /\ \E v \in vectors : pf.out = FirstReaching(entries, v, pf.r)

\* the draw 0 meets a first entry of frequency 0; a draw above the sum of a
\* short vector falls through to the last entry
C15_Witness ==
    /\ pf.fn = "sample_villain_action"
    /\ pf.combo = NoStr
    /\ Keys(pf.node.strategy) = <<AsKs, AhKh>>
    /\ Len(pf.node.childrens) = 2
    /\ Len(pf.node.strategy[1][2]) = 2
    /\ pf.r = Rat(9, 10)
    /\ pf.out = BET

\* ------------------------------------------------------------ C16, C20
\* a <= b in lexicographic order, by the first position where they differ
LexLeq(a, b) ==
    \E k \in 0..Len(a) :
        /\ k <= Len(b)
        /\ SubSeq(a, 1, k) = SubSeq(b, 1, k)
        /\ \/ k = Len(a)
           \/ k < Len(b) /\ Ord(a[k + 1]) < Ord(b[k + 1])

\* C16: over the node's labels L, checks, calls and folds map to CHECK, CALL and
\* FOLD exactly when that label is in L; bets (raises) map to the
\* lexicographically smallest label of L starting with BET (RAISE); any other
\* verb, or a verb without such a label, has no match.
C16_VerbMapping ==
    pf.fn = "map_verb_to_solver"
    => LET L == SeqRange(Keys(pf.node.childrens))
           verb == pf.action
           fixed == IF verb = "checks" THEN CHECK
                    ELSE IF verb = "calls" THEN CALL ELSE FOLD
           prefix == IF verb = "bets" THEN BET ELSE RAISE
           sized == {c \in L : StartsWith(c, prefix)}
       IN  IF verb \in {"checks", "calls", "folds"}
           THEN pf.out = (IF fixed \in L THEN fixed ELSE NoStr)
           ELSE IF verb \in {"bets", "raises"} /\ sized # {}
           THEN pf.out \in sized /\ \A c \in sized : LexLeq(pf.out, c)
           ELSE pf.out = NoStr

C16_Witness ==
    /\ pf.fn = "map_verb_to_solver"
    /\ pf.action = "bets"
    /\ Keys(pf.node.childrens) = <<Bet2, Bet10>>
    /\ pf.out = Bet10

GradeRank(g) ==
    CASE g = "blunder" -> 0 [] g = "wrong" -> 1 [] g = "inaccuracy" -> 2
      [] g = "correct" -> 3 [] g = "best" -> 4

\* C20: grade is total with inclusive lower thresholds 0.75, 0.40, 0.15 and 0.05,
\* and a higher frequency never gets a worse grade.
C20_GradeThresholds ==
    pf.fn = "grade_action"
    => LET f == pf.r
       IN  /\ pf.out \in {"best", "correct", "inaccuracy", "wrong", "blunder"}
           /\ pf.out = "best" <=> RLeq(Rat(3, 4), f)
           /\ pf.out = "correct" <=> RLeq(Rat(2, 5), f) /\ RLess(f, Rat(3, 4))
           /\ pf.out = "inaccuracy" <=> RLeq(Rat(3, 20), f) /\ RLess(f, Rat(2, 5))
           /\ pf.out = "wrong" <=> RLeq(Rat(1, 20), f) /\ RLess(f, Rat(3, 20))
           /\ pf.out = "blunder" <=> RLess(f, Rat(1, 20))
           /\ \A g \in FreqInputs :
                 RLeq(f, g) => GradeRank(pf.out) <= GradeRank(grade_action(g))

C20_Witness ==
    /\ pf.fn = "grade_action"
    /\ pf.r = Rat(1, 20)
    /\ pf.out = "wrong"

\* ------------------------------------------------------------ hand analysis
Analysed == resp.op = "gto" /\ resp.status = 200 /\ resp.analysis.decisions # <<>>
AnalysedTree == spots[SpotWithKey(resp.analysis.matched_spot_key)].tree
EntryLabels(node) ==
    [i \in DOMAIN gto_get_action_entries(node) |-> gto_get_action_entries(node)[i].name]
ShownFreq(gto_actions, label) ==
    gto_actions[CHOOSE i \in DOMAIN gto_actions : gto_actions[i].name = label].gto_freq

\* C17: a recorded hero decision whose verb maps to a label of the node's
\* ActionEntry list, a FOLD synthesized at index 0 included, has that label as
\* its matched solver action and, as its hero frequency, the frequency of that
\* label for hero's combo, which is the value its own action list shows.
C17_DecisionMatchesActionEntries ==
    Analysed
    => \A k \in DOMAIN resp.analysis.decisions :
          LET d == resp.analysis.decisions[k]
              node == AnalysedTree[d.node]
              label == map_verb_to_solver(d.hero_action, EntryLabels(node))
          IN  label # NoStr
              => /\ d.matched_solver_action = label
                 /\ d.hero_gto_freq
                      = Round4(hands_gto_freq_for_combo(node, resp.analysis.hero_combo,
                                                        label, perm_order))
                 /\ d.hero_gto_freq = ShownFreq(d.gto_actions, label)

Dealt == resp.op = "gto" /\ resp.status = 200 /\ resp.dealt # <<>>
DealableAt(node) == SeqRange(Keys(AnalysedTree[node].dealcards))

\* C18: the card appended at a chance node while entering the turn or the
\* river is the hand's card of that street when the node can deal it and hero
\* does not hold it; otherwise it is a card the node can deal that hero does
\* not hold; a hole card of hero is never appended.
C18_AppendedCard ==
    Dealt
    => \A k \in DOMAIN resp.dealt :
          LET e == resp.dealt[k]
              hole == HoleCards(resp.hand.hero_hole_cards)
          IN  /\ e.street \in {"turn", "river"}
              /\ AnalysedTree[e.node].node_type = "chance_node"
              /\ e.card \in DealableAt(e.node) \ hole
              /\ e.street_card \in DealableAt(e.node) \ hole => e.card = e.street_card
              /\ resp.node_path # <<>>
              /\ \E i \in DOMAIN resp.node_path : resp.node_path[i] = e.card

\* the turn card of the hand is hero's ace of hearts, which the node could deal
C18_Witness ==
    /\ Dealt
    /\ \E k \in DOMAIN resp.dealt :
          /\ resp.dealt[k].street_card = Ah
          /\ Ah \in DealableAt(resp.dealt[k].node)
          /\ resp.dealt[k].card = Td

StreetIndex(street) == CHOOSE k \in DOMAIN StreetNames : StreetNames[k] = street
Lacked == resp.op = "gto" /\ resp.lacking.street # ""

\* C19: when the tree lacks the data of a street of the hand (navigation
\* finds no node, or the street's chance node has no cards to deal), the
\* analysis is returned with status ready and exactly the decisions collected
\* before that point, none of them of that street or of a later one.
C19_StopsAtLackingStreet ==
    Lacked
    => /\ resp.status = 200
       /\ resp.analysis.status = "ready"
       /\ resp.analysis.decisions = resp.lacking.decisions
       /\ \A k \in DOMAIN resp.analysis.decisions :
             StreetIndex(resp.analysis.decisions[k].street)
                 < StreetIndex(resp.lacking.street)

\* the river was not dumped: the flop and turn decisions of a hand that went to
\* the river are returned
C19_Witness ==
    /\ Lacked
    /\ resp.lacking.street = "river"
    /\ \E k \in DOMAIN resp.hand.actions_json.river :
          resp.hand.actions_json.river[k].is_hero
    /\ Len(resp.analysis.decisions) = 2

\* ------------------------------------------------------------ range expansion
RangeCalled == pf.fn = "parse_range_to_combos"
UpToColon(t) ==
    LET colons == {i \in DOMAIN t : t[i] = ":"}
    IN  IF colons = {} THEN t
        ELSE SubSeq(t, 1, (CHOOSE i \in colons : \A j \in colons : i <= j) - 1)
\* the hands of a range string: its tokens without blanks and frequency suffix
HandsOf(range_str) ==
    LET tokens == SelectSeq(SplitAcc(range_str, {","}, <<>>, <<>>),
                            LAMBDA t : Strip(t) # <<>>)
    IN  [i \in 1..Len(tokens) |-> Strip(UpToColon(Strip(tokens[i])))]
IsHand(h) ==
    /\ Len(h) \in {2, 3}
    /\ h[1] \in SeqRange(RANKS) /\ h[2] \in SeqRange(RANKS)
    /\ Len(h) = 2 => h[1] = h[2]
    /\ Len(h) = 3 => h[1] # h[2] /\ h[3] \in {"s", "o"}
\* a valid range string names pairs, suited and offsuit hands, each once
ValidRange(range_str) ==
    LET hands == HandsOf(range_str)
    IN  /\ \A i \in DOMAIN hands : IsHand(hands[i])
        /\ \A i, j \in DOMAIN hands : hands[i] = hands[j] => i = j

OneToken ==
    /\ RangeCalled /\ pf.node.board_cards = {}
    /\ Len(HandsOf(pf.node.range_str)) = 1
    /\ IsHand(HandsOf(pf.node.range_str)[1])
TokenHand == HandsOf(pf.node.range_str)[1]
SuitSet == SeqRange(SUITS)
Suited(h) == {<<h[1], x, h[2], x>> : x \in SuitSet}
Offsuit(h) == {<<h[1], p[1], h[2], p[2]>> : p \in {q \in SuitSet \X SuitSet : q[1] # q[2]}}
TokenCount(pair, suited, offsuit) ==
    OneToken
    => Len(pf.out) = IF Len(TokenHand) = 2 THEN pair
                     ELSE IF TokenHand[3] = "s" THEN suited ELSE offsuit

\* C22: with no excluded cards one token expands to 4 combos for a pair, 4 for
\* a suited hand and 12 for an offsuit hand.
C22_TokenCounts == TokenCount(4, 4, 12)

\* C22, amended: with no excluded cards one token expands to the 6 combos of a
\* pair, the 4 of a suited hand or the 12 of an offsuit hand, each once,
\* whether or not the token carries a ':freq' suffix.
C22_TokenCountsSixForPair ==
    /\ TokenCount(6, 4, 12)
    /\ OneToken
       => /\ Cardinality(SeqRange(pf.out)) = Len(pf.out)
          /\ Len(TokenHand) = 2
             => \A i \in DOMAIN pf.out :
                   /\ pf.out[i][1] = TokenHand[1] /\ pf.out[i][3] = TokenHand[1]
                   /\ pf.out[i][2] # pf.out[i][4]
          /\ Len(TokenHand) = 3 /\ TokenHand[3] = "s"
             => SeqRange(pf.out) = Suited(TokenHand)
          /\ Len(TokenHand) = 3 /\ TokenHand[3] = "o"
             => SeqRange(pf.out) = Offsuit(TokenHand)

\* a pair with a frequency suffix
C22_Witness ==
    /\ OneToken
    /\ pf.node.range_str = <<"A", "A", ":", "0", ".", "5">>
    /\ Len(pf.out) = 6

\* ------------------------------------------------------------ totality
\* C23: action-entry derivation, frequency resolution and opponent sampling
\* return a value for every node, combo and action label and never raise, also
\* for strategy vectors of unequal length.
C23_LookupsNeverRaise ==
    /\ pf.fn = "sample_villain_action" => pf.out # IndexError
    /\ FreqCalled => pf.out.d > 0
    /\ EntriesCalled => \A i \in DOMAIN pf.out : pf.out[i].index \in 0..(Len(pf.out) - 1)

\* ------------------------------------------------------------ isolation
SessionView(state) ==
    <<state.node_path, state.decisions, state.action_history, state.extra_board_cards,
      state.hero_combo, state.hero_position>>

\* C24: start, submitAction and complete on one session id leave the node
\* path, decisions, action history, dealt extra cards, hero combo and hero
\* role of every other session as they were.
C24_SessionsIsolated ==
    [][\A other \in DOMAIN sessions :
          resp'.op = "start" \/ other # resp'.sid
          => /\ other \in DOMAIN sessions'
             /\ SessionView(sessions'[other]) = SessionView(sessions[other])]_vars

\* an action was taken in one session while another, already played in, is open
C24_Witness ==
    /\ resp.op = "action" /\ resp.status = 200
    /\ \E other \in DOMAIN sessions :
          other # resp.sid /\ sessions[other].decisions # <<>>

\* ------------------------------------------------------------ solve jobs
JobStep(a, b) ==
    a = b \/ <<a, b>> \in {<<"pending", "running">>, <<"running", "done">>, <<"running", "failed">>}

ResultStatus(job_id) ==
    IF job_id \notin DOMAIN jobs THEN 404
    ELSE CASE jobs[job_id].status = "failed" -> 500
           [] jobs[job_id].status \in {"pending", "running"} -> 409
           [] OTHER -> 200

\* C28: a job is created pending and its status moves pending -> running ->
\* done or failed only; it is done only when its subprocess exited with code 0
\* and wrote the result file; done and failed are never left; the result
\* endpoint answers 200 only for a done job, 409 for a pending or running one,
\* 500 for a failed one and 404 for an unknown one.
C28_JobStatusLifecycle ==
    [][/\ \A j \in DOMAIN jobs : j \in DOMAIN jobs' /\ JobStep(jobs[j].status, jobs'[j].status)
       /\ \A j \in DOMAIN jobs' : j \notin DOMAIN jobs => jobs'[j].status = "pending"
       /\ \A j \in DOMAIN jobs' :
             jobs'[j].status = "done" /\ jobs[j].status # "done"
             => LET proc == procs[jobs[j].proc]
                IN  ~proc.alive /\ proc.returncode = 0 /\ proc.result
       /\ resp' # resp /\ resp'.op = "result" => resp'.status = ResultStatus(resp'.sid)]_vars

\* the result of a done job was returned
C28_Witness ==
    /\ resp.op = "result" /\ resp.status = 200
    /\ resp.sid \in DOMAIN jobs /\ jobs[resp.sid].status = "done"

\* ------------------------------------------------------------ progress stream
Lines(received) == [k \in 1..(Len(received) - 1) |-> received[k].line]

\* C26: a client whose socket was closed by the server received every
\* progress line of its job exactly once and in order, each in a line message,
\* and then one final message carrying the terminal status of the job.
C26_EveryLineOnceInOrder ==
    \A i \in DOMAIN clients :
       clients[i].pc = "closed"
       => LET received == clients[i].received
              job == jobs[clients[i].job_id]
          IN  /\ received # <<>>
              /\ Lines(received) = job.progress
              /\ \A k \in 1..(Len(received) - 1) : ~received[k].final
              /\ received[Len(received)] = FinalMessage(job.status)
              /\ job.status \in {"done", "failed"}

\* ------------------------------------------------------------ one solver at a time
\* C25: at most one solver subprocess is alive at any time, over the solve
\* jobs and the spot solves together.
C25_OneSubprocessAtATime == Cardinality(Running) <= 1

\* ------------------------------------------------------------ spot solve status
SpotStep(a, b) ==
    a = b \/ <<a, b>> \in {<<"pending", "solving">>, <<"solving", "ready">>, <<"solving", "failed">>}

\* the tasks of a spot that went past the pending check
Passed(tasks, spot_id) ==
    {t \in DOMAIN tasks : tasks[t].spot_id = spot_id /\ tasks[t].pc \notin {"created", "returned"}}

\* C27: the solve_status of a spot moves pending -> solving -> ready or
\* failed only, and at most one solve task of a spot goes past the pending
\* check, whatever the number of tasks created for it.
C27_OneSolvePerSpot ==
    [][\A id \in DOMAIN spots :
          /\ SpotStep(spots[id].solve_status, spots'[id].solve_status)
          /\ Cardinality(Passed(solve_tasks', id)) <= 1]_vars

\* ------------------------------------------------------------ entries of both copies
ChildEntries(node, first) ==
    [i \in 1..Len(node.childrens) |-> [name |-> node.childrens[i][1], index |-> first + i - 1]]
FoldThenChildren(node) == <<[name |-> FOLD, index |-> 0]>> \o ChildEntries(node, 1)
Gapless(entries) == \A i \in DOMAIN entries : entries[i].index = i - 1

\* C29 as stated: both copies return FOLD at index 0 followed by child i at
\* index i + 1 exactly when the node has a strategy table whose vectors have
\* length n + 1, n the number of children, and child i at index i otherwise;
\* the indices are 0..len-1 without gaps.
C29_FoldIffVectorsOneLonger ==
    EntriesCalled =>
        /\ pf.out = IF /\ pf.node.strategy # <<>>
                       /\ VectorLengths(pf.node) = {Len(pf.node.childrens) + 1}
                    THEN FoldThenChildren(pf.node) ELSE ChildEntries(pf.node, 0)
        /\ Gapless(pf.out)

\* C29 amended: both copies return FOLD at index 0 followed by child i at
\* index i + 1 exactly when the node has a strategy table whose first vector
\* has length n + 1, and child i at index i otherwise; the indices are
\* 0..len-1 without gaps.
C29_FoldIffFirstVectorOneLonger ==
    EntriesCalled =>
        /\ pf.out = IF /\ pf.node.strategy # <<>>
                       /\ Len(pf.node.strategy[1][2]) = Len(pf.node.childrens) + 1
                    THEN FoldThenChildren(pf.node) ELSE ChildEntries(pf.node, 0)
        /\ Gapless(pf.out)

\* the hand-analysis copy synthesized FOLD for a table whose vectors differ
C29_Witness ==
    /\ pf.fn = "gto_get_action_entries"
    /\ Len(pf.node.childrens) = 2
    /\ Cardinality(VectorLengths(pf.node)) = 2
    /\ pf.out = FoldThenChildren(pf.node)

\* ------------------------------------------------------------ the two navigators
\* C30: for every tree document and every path of action labels and card
\* codes the navigator of the live session and the navigator of the hand
\* analysis yield the same node, or both yield none.
C30_NavigatorsAgree ==
    pf.fn \in {"navigate_tree", "gto_navigate_tree"} =>
        /\ pf.out = navigate_tree(pf.node.root, pf.node.node_path)
        /\ pf.out = gto_navigate_tree(pf.node.root, pf.node.node_path)

\* ------------------------------------------------------------ whose node is shown
HeroRole(hero_position) == IF hero_position = "oop" THEN 0 ELSE 1
ShownNode == TreeOf(resp.sid)[navigate_tree(TreeOf(resp.sid), sessions[resp.sid].node_path)]
ShownOpen == Served /\ ~resp.is_terminal

\* C31 as stated: whenever start or submitAction returns a state that is not
\* terminal, the node at the session's path is an action node whose actor is
\* hero's role.
C31_ShownNodeIsHeros ==
    ShownOpen =>
        /\ navigate_tree(TreeOf(resp.sid), sessions[resp.sid].node_path) # NoNode
        /\ ShownNode.node_type = "action_node"
        /\ ShownNode.player = HeroRole(resp.hero_position)

\* C31 amended: whenever start or submitAction returns a state that is not
\* terminal, the node at the session's path is an action node; its actor is
\* hero's role when the node names its player, and a node that names no
\* player has no strategy table or one that holds hero's combo.
C31_ShownNodeIsHerosWhenNamed ==
    ShownOpen =>
        /\ navigate_tree(TreeOf(resp.sid), sessions[resp.sid].node_path) # NoNode
        /\ ShownNode.node_type = "action_node"
        /\ ShownNode.player # NoPlayer => ShownNode.player = HeroRole(resp.hero_position)
        /\ ShownNode.player = NoPlayer =>
              \/ ShownNode.strategy = <<>>
              \/ \E k \in DOMAIN ShownNode.strategy :
                    ShownNode.strategy[k][1] = resp.hero_combo

\* hero acted, the opponent answered, a card was dealt and hero is shown a
\* node that names its player
C31_Witness ==
    /\ ShownOpen /\ resp.op = "action"
    /\ resp.villain_action # NoStr /\ resp.new_board_cards # <<>>
    /\ ShownNode.player = HeroRole(resp.hero_position)

\* ------------------------------------------------------------ after the terminal state
\* C32: once start or submitAction has returned a terminal state for a
\* session, a submitAction on that session is rejected with an error, records
\* no decision and leaves the path and the action history as they were.
C32_TerminalIsAbsorbing ==
    [][(/\ Served /\ resp.is_terminal
        /\ resp.sid \in DOMAIN sessions
        /\ resp'.op = "action" /\ resp'.sid = resp.sid) =>
          /\ resp'.status >= 400
          /\ sessions' = sessions
          /\ db_sessions' = db_sessions]_vars

\* ------------------------------------------------------------ recorded actions
\* C33: every decision a session stores has a chosen action that is one of
\* the names of its own list of available actions, with the frequency listed
\* for that name, and the path of a session grows by hero's action only when
\* the action is available at the node.
C33_RecordedActionIsAvailable ==
    \A sid \in DOMAIN sessions :
       \A i \in DOMAIN sessions[sid].decisions :
          LET d == sessions[sid].decisions[i]
          IN  \E k \in DOMAIN d.all_actions :
                 /\ d.all_actions[k].name = d.chosen_action
                 /\ d.all_actions[k].gto_freq = d.gto_freq

\* ------------------------------------------------------------ append-only session
IsPrefix(a, b) == Len(a) <= Len(b) /\ SubSeq(b, 1, Len(a)) = a

\* C34: within a session the previous path is a prefix of the new path after
\* every operation, every successful submitAction adds exactly one decision
\* and changes no earlier one, and the path snapshot of every decision
\* followed by its chosen action is a prefix of the session's path.
C34_PathAndLogAppendOnly ==
    [][\A sid \in DOMAIN sessions \cap DOMAIN sessions' :
          LET old == sessions[sid]
              new == sessions'[sid]
          IN  /\ IsPrefix(old.node_path, new.node_path)
              /\ IsPrefix(old.decisions, new.decisions)
              /\ (resp'.op = "action" /\ resp'.status = 200 /\ resp'.sid = sid)
                    => Len(new.decisions) = Len(old.decisions) + 1
              /\ \A i \in DOMAIN new.decisions :
                    IsPrefix(Append(new.decisions[i].node_path,
                                    new.decisions[i].chosen_action), new.node_path)]_vars

\* ------------------------------------------------------------ action history
\* the positions of a path that hero's recorded decisions fill
HeroSteps(state) == {Len(state.decisions[i].node_path) + 1 : i \in DOMAIN state.decisions}
\* path element i was dealt: the node before it is a chance node
DealtAt(tree, path, i) ==
    LET before == navigate_tree(tree, SubSeq(path, 1, i - 1))
    IN  before # NoNode /\ tree[before].node_type = "chance_node"
TagOf(tree, state, i) ==
    LET step == state.node_path[i]
    IN  IF i \in HeroSteps(state) THEN <<"H", ":">> \o step
        ELSE IF DealtAt(tree, state.node_path, i) THEN <<"[">> \o step \o <<"]">>
        ELSE <<"V", ":">> \o step

\* C35: after start and after every successful submitAction the action
\* history is as long as the path, entry i tags path element i as a dealt
\* card, hero's action or the opponent's action, and there are as many hero
\* entries as decisions.
C35_HistoryTagsThePath ==
    Served =>
        LET state == sessions[resp.sid]
            history == state.action_history
        IN  /\ Len(history) = Len(state.node_path)
            /\ \A i \in DOMAIN history : history[i] = TagOf(TreeOf(resp.sid), state, i)
            /\ Cardinality({i \in DOMAIN history : SubSeq(history[i], 1, 2) = <<"H", ":">>})
                  = Len(state.decisions)

\* ------------------------------------------------------------ persisted decision log
\* C36: after every successful submitAction the persisted decision log of
\* the session equals its in-memory decision list, and a complete that finds
\* no in-memory state returns the persisted log and its mean, which is what a
\* complete with the in-memory state returns.
C36_PersistedLogEqualsMemory ==
    [][/\ (resp'.op = "action" /\ resp'.status = 200)
          => db_sessions'[resp'.sid].decisions_json = sessions'[resp'.sid].decisions
       /\ (resp'.op = "complete" /\ resp' # resp /\ resp'.sid \in DOMAIN db_sessions)
          => LET log == db_sessions[resp'.sid].decisions_json
                 memory == IF resp'.has_state THEN sessions[resp'.sid].decisions ELSE log
             IN  /\ resp'.decisions = (IF memory = <<>> THEN log ELSE memory)
                 /\ memory # <<>> => memory = log
                 /\ IF log = <<>> THEN resp'.gto_score = Zero
                    ELSE IsMeanTo4dp(resp'.gto_score, RSum(GtoFreqs(log)), Len(log))]_vars

\* a session with decisions was completed for the first time from the
\* persisted log, its in-memory state being gone
C36_Witness ==
    /\ resp.op = "complete" /\ ~resp.has_state
    /\ Len(resp.decisions) = 2
    /\ resp.sid \in DOMAIN db_sessions
    /\ \E key \in DOMAIN db_stats : db_stats[key].sessions_count = 1

\* ------------------------------------------------------------ auto-advance ends
\* the node the loop stopped at is an action node the ownership test gives to hero
AtHero == /\ pf.out.next_node # NoNode
          /\ LET n == pf.node.root[pf.out.next_node]
             IN  /\ n.node_type = "action_node"
                 /\ ~is_villain_node(n, pf.node.hero_position, pf.node.hero_combo)

\* the call is over, by returning or by raising
Stopped == pf.fn \in {"returned", "raised"}

\* the loop ends on every tree and from every path drawn
C37_AdvanceEnds == <>Stopped

\* C37: on every finite tree and from every node path, auto-advance takes
\* finitely many steps, each appending one key to the path, and stops at a
\* hero action node or at a terminal, so that the caller gets its result.
C37_AdvanceStops ==
    /\ [][(InLoop /\ pf'.fn = "advance_to_hero")
            => /\ Len(pf'.out.node_path) = Len(pf.out.node_path) + 1
               /\ IsPrefix(pf.out.node_path, pf'.out.node_path)]_vars
    /\ C37_AdvanceEnds
    /\ [](Stopped => /\ pf.fn = "returned"
                     /\ (pf.out.next_node = NoNode \/ AtHero))

\* ------------------------------------------------------------ sampled actions
\* the vector _sample_villain_action draws from: the combo's own, its
\* isomorphic key's, or the average of all vectors by position
SamplerFreqs(node, villain_combo, order) ==
    LET strategy == node.strategy
        entries == get_action_entries(node)
        direct == IF villain_combo # NoStr /\ HasKey(strategy, villain_combo)
                  THEN DictGet(strategy, villain_combo) ELSE <<>>
        iso == IF villain_combo # NoStr
               THEN find_iso_combo(strategy, villain_combo, order) ELSE NoStr
        known == IF direct # <<>> THEN direct
                 ELSE IF iso # NoStr THEN DictGet(strategy, iso) ELSE <<>>
        all_freqs == Values(strategy)
    IN  IF known # <<>> THEN known
        ELSE [i \in 1..Len(entries) |->
                RDivInt(RSum([k \in 1..Len(all_freqs) |-> all_freqs[k][i]]),
                        Len(all_freqs))]

\* C38: the opponent sampler never returns an action whose frequency in the
\* vector used is 0 when some other action of the node has positive
\* frequency, for every draw in [0, 1), 0 included, and for vectors whose sum
\* is below 1.
C38_SampledActionHasPositiveFrequency ==
    (/\ pf.fn = "sample_villain_action"
     /\ pf.out # IndexError
     /\ pf.node.strategy # <<>>
     /\ get_action_entries(pf.node) # <<>>)
    => LET entries == get_action_entries(pf.node)
           freqs == SamplerFreqs(pf.node, pf.combo, perm_order)
           zipped == {i \in DOMAIN entries : i <= Len(freqs)}
       IN  (\E i \in zipped : RLess(Zero, freqs[i]))
           => \E i \in zipped : entries[i].name = pf.out /\ RLess(Zero, freqs[i])

\* ------------------------------------------------------------ street of a graded node
\* C39: in hand analysis every decision is graded at a node consistent with
\* its street label: a flop decision at a path with no dealt-card key, a turn
\* decision at a path with exactly one and a river decision at a path with
\* exactly two, also after an action of an earlier street found no solver
\* action.
C39_GradedOnItsStreet ==
    Analysed
    => \A k \in DOMAIN resp.analysis.decisions :
          LET d == resp.analysis.decisions[k]
          IN  Len(SelectSeq(d.node_path, CARD_PAT)) = StreetIndex(d.street) - 1

====
